---- MODULE Spec2Model ----
(***************************************************************************)
(* pjlink-bridge: the TCP connection worker of src/src/lib.rs              *)
(* (PjLinkConnectionHandler::handle_connection and what it calls), the     *)
(* shared handler behind its Mutex and the connection-id counter.          *)
(*                                                                         *)
(* Bytes are numbers 0..255, byte strings are sequences of bytes.  Every   *)
(* worker thread is a process with a program counter pc[c]; one action is  *)
(* one step of the thread between two points where another thread, the     *)
(* peer or the kernel can be observed.                                     *)
(***************************************************************************)
EXTENDS Integers, Sequences, FiniteSets, TLC

(***************************************************************************)
(* Bounds of the model.                                                    *)
(***************************************************************************)
\* connections the listener accepts
NumConn == 2
\* lines the peers send, all connections together
MaxLines == 2

Conn == 1..NumConn

(***************************************************************************)
(* Wire constants.                                                         *)
(***************************************************************************)
PJLINK_HEADER == 37
PJLINK_COMMAND_SEPARATOR == 32
PJLINK_RESPONSE_SEPARATOR == 61
PJLINK_TERMINATOR == 13
PJLINK_QUERY == 63

\* b"PJLINK 0\x0d"
PJLINK_NULLIFIED_SECURITY == <<80, 74, 76, 73, 78, 75, 32, 48, 13>>
\* b"PJLINK 1 "
PJLINK_SECURITY == <<80, 74, 76, 73, 78, 75, 32, 49, 32>>
\* b"PJLINK ERRA\x0d"
PJLINK_SECURITY_ERRA == <<80, 74, 76, 73, 78, 75, 32, 69, 82, 82, 65, 13>>

PJLINK_RESPONSE_TRANSMISSION_PARAMETER_OK == <<79, 75>>
PJLINK_RESPONSE_TRANSMISSION_PARAMETER_ERR1 == <<69, 82, 82, 49>>
PJLINK_RESPONSE_TRANSMISSION_PARAMETER_ERR2 == <<69, 82, 82, 50>>
PJLINK_RESPONSE_TRANSMISSION_PARAMETER_ERR3 == <<69, 82, 82, 51>>
\* the source's literal for ERR4 is b"ERR3"
PJLINK_RESPONSE_TRANSMISSION_PARAMETER_ERR4 == <<69, 82, 82, 51>>

\* length of the hexadecimal MD5 a client sends in front of its first line
HashLen == 32

(***************************************************************************)
(* Byte-string helpers.                                                    *)
(***************************************************************************)
\* s[from..to] with Rust's 0-based half-open range from..to
Slice(s, from, to) == SubSeq(s, from + 1, to)

IsPrefix(p, s) == Len(p) <= Len(s) /\ SubSeq(s, 1, Len(p)) = p

\* one hexadecimal digit as format!("{:X}") / format!("{:x}") print it
HexDigitUpper(d) == IF d < 10 THEN 48 + d ELSE 55 + d
HexDigitLower(d) == IF d < 10 THEN 48 + d ELSE 87 + d

\* a 16-bit number as four upper-case hexadecimal digits, zero padded
Hex4Upper(n) ==
    << HexDigitUpper(n \div 4096), HexDigitUpper((n \div 256) % 16),
       HexDigitUpper((n \div 16) % 16), HexDigitUpper(n % 16) >>

\* format!("{:08X}", n) of a u32 kept as its two 16-bit halves <<hi, lo>>
FormatSalt(n) == Hex4Upper(n[1]) \o Hex4Upper(n[2])

\* md5::compute: a 16-byte digest of the input.  The digest function is a
\* stand-in (each digest byte mixes one input byte with its position and the
\* input length); it is deterministic and separates the inputs of the model.
Md5Compute(bytes) ==
    [i \in 1..16 |->
        (bytes[((i - 1) % Len(bytes)) + 1] * (i + 2) + 7 * Len(bytes) + 31 * i) % 256]

\* format!("{:x}", digest): two lower-case digits for every byte
HexLower(d) ==
    [k \in 1..(2 * Len(d)) |->
        IF k % 2 = 1 THEN HexDigitLower(d[(k + 1) \div 2] \div 16)
        ELSE HexDigitLower(d[k \div 2] % 16)]

\* the hash the server expects: hex(md5(salt ++ password)); the singleton
\* sets make each stage a value computed once
ExpectedHash(salt, password) ==
    CHOOSE h \in {HexLower(d) : d \in {Md5Compute(salt \o password)}} : TRUE

(***************************************************************************)
(* Raw payload: parsing and serialization.                                 *)
(***************************************************************************)
\* PjLinkRawPayload::from_buffer indexes buffer[7..len], buffer[1..6] and
\* buffer[6] without a length check: a buffer shorter than 7 bytes panics.
FromBufferPanics(buffer) == Len(buffer) < 7

\* PjLinkRawPayload::from_buffer; the first byte is skipped, never compared
from_buffer(buffer) ==
    [ command_body_with_class |-> Slice(buffer, 1, 6),
      separator |-> buffer[7],
      transmission_parameter |-> Slice(buffer, 7, Len(buffer)) ]

\* the parameter bytes PjLinkRawPayload::update_with_response gives a response
ResponseParameter(response) ==
    CASE response.kind = "Ok" -> PJLINK_RESPONSE_TRANSMISSION_PARAMETER_OK
      [] response.kind = "OutOfParameter" -> PJLINK_RESPONSE_TRANSMISSION_PARAMETER_ERR2
      [] response.kind = "UnavailableTime" -> PJLINK_RESPONSE_TRANSMISSION_PARAMETER_ERR3
      [] response.kind = "ProjectorOrDisplayFailure" -> PJLINK_RESPONSE_TRANSMISSION_PARAMETER_ERR4
      [] response.kind = "Undefined" -> PJLINK_RESPONSE_TRANSMISSION_PARAMETER_ERR1
      [] response.kind = "Single" -> response.bytes
      [] response.kind = "Multiple" -> response.bytes
      [] response.kind = "Empty" -> <<>>

\* a response that keeps the separator of the request
update_with_response_KeepsSeparator(raw, response) ==
    [ command_body_with_class |-> raw.command_body_with_class,
      separator |-> raw.separator,
      transmission_parameter |-> ResponseParameter(response) ]

\* PjLinkRawPayload::update_with_response
update_with_response(raw, response) ==
    [ command_body_with_class |-> raw.command_body_with_class,
      separator |-> PJLINK_RESPONSE_SEPARATOR,
      transmission_parameter |-> ResponseParameter(response) ]

\* the terminator is appended whatever the last byte is
write_to_buffer_AlwaysAppends(raw) ==
    Append(<<PJLINK_HEADER>> \o raw.command_body_with_class
               \o <<raw.separator>> \o raw.transmission_parameter,
           PJLINK_TERMINATOR)

\* PjLinkConnectionHandler::write_to_buffer: a last byte 0x00 is replaced by
\* the terminator, otherwise the terminator is appended
write_to_buffer(raw) ==
    LET buffer == <<PJLINK_HEADER>> \o raw.command_body_with_class
                  \o <<raw.separator>> \o raw.transmission_parameter
    IN  IF buffer[Len(buffer)] = 0
        THEN [buffer EXCEPT ![Len(buffer)] = PJLINK_TERMINATOR]
        ELSE Append(buffer, PJLINK_TERMINATOR)

(***************************************************************************)
(* Command classifier.  A command is a record: its variant (tag), the      *)
(* variant of its sub-parameter ("None" when it has none) and the byte the *)
(* sub-parameter carries (-1 when none; 1/0 for a mute flag).              *)
(***************************************************************************)
Body_1POWR == <<49, 80, 79, 87, 82>>
Body_1INPT == <<49, 73, 78, 80, 84>>
Body_2INPT == <<50, 73, 78, 80, 84>>
Body_1AVMT == <<49, 65, 86, 77, 84>>
Body_1ERST == <<49, 69, 82, 83, 84>>
Body_1LAMP == <<49, 76, 65, 77, 80>>
Body_1INST == <<49, 73, 78, 83, 84>>
Body_2INST == <<50, 73, 78, 83, 84>>
Body_1NAME == <<49, 78, 65, 77, 69>>
Body_1INF1 == <<49, 73, 78, 70, 49>>
Body_1INF2 == <<49, 73, 78, 70, 50>>
Body_1INFO == <<49, 73, 78, 70, 79>>
Body_1CLSS == <<49, 67, 76, 83, 83>>
Body_2SNUM == <<50, 83, 78, 85, 77>>
Body_2SVER == <<50, 83, 86, 69, 82>>
Body_2INNM == <<50, 73, 78, 78, 77>>
Body_2IRES == <<50, 73, 82, 69, 83>>
Body_2RRES == <<50, 82, 82, 69, 83>>
Body_2FILT == <<50, 70, 73, 76, 84>>
Body_2RLMP == <<50, 82, 76, 77, 80>>
Body_2RFIL == <<50, 82, 70, 73, 76>>
Body_2SVOL == <<50, 83, 86, 79, 76>>
Body_2MVOL == <<50, 77, 86, 79, 76>>
Body_2FREZ == <<50, 70, 82, 69, 90>>

Cmd(tag, param, value) == [tag |-> tag, param |-> param, value |-> value]
CmdUnknown == Cmd("Unknown", "None", -1)

\* input_param_parse without the upper limit '9' on a class 1 value
input_param_parse_Class1AnyHigher(is_class_2, input_char, input_value) ==
    LET is_invalid_below == input_value < 49
        is_class_2_invalid_higher ==
            is_class_2 /\ ((input_value > 57 /\ input_value < 65) \/ input_value > 90)
    IN  IF is_invalid_below \/ is_class_2_invalid_higher
        THEN <<"Unknown", -1>>
        ELSE CASE input_char = 49 -> <<"RGB", input_value>>
               [] input_char = 50 -> <<"Video", input_value>>
               [] input_char = 51 -> <<"Digital", input_value>>
               [] input_char = 52 -> <<"Storage", input_value>>
               [] input_char = 53 -> <<"Network", input_value>>
               [] input_char = 54 -> IF is_class_2 THEN <<"Internal", input_value>>
                                     ELSE <<"Unknown", -1>>
               [] OTHER -> <<"Unknown", -1>>

\* PjLinkCommand::input_param_parse
input_param_parse(is_class_2, input_char, input_value) ==
    LET is_invalid_below == input_value < 49
        is_class_1_invalid_higher == ~is_class_2 /\ input_value > 57
        is_class_2_invalid_higher ==
            is_class_2 /\ ((input_value > 57 /\ input_value < 65) \/ input_value > 90)
    IN  IF is_invalid_below \/ is_class_1_invalid_higher \/ is_class_2_invalid_higher
        THEN <<"Unknown", -1>>
        ELSE CASE input_char = 49 -> <<"RGB", input_value>>
               [] input_char = 50 -> <<"Video", input_value>>
               [] input_char = 51 -> <<"Digital", input_value>>
               [] input_char = 52 -> <<"Storage", input_value>>
               [] input_char = 53 -> <<"Network", input_value>>
               [] input_char = 54 -> IF is_class_2 THEN <<"Internal", input_value>>
                                     ELSE <<"Unknown", -1>>
               [] OTHER -> <<"Unknown", -1>>

\* the "1POWR" arm reads transmission_parameter[0] without a length check
ClassifyPanics(raw) ==
    /\ raw.command_body_with_class = Body_1POWR
    /\ raw.transmission_parameter = <<>>

\* the mute flag is taken from the target byte
AvMuteParameter_FlagFromTarget(tp) ==
    IF Len(tp) = 1 /\ tp[1] = PJLINK_QUERY THEN <<"Query", -1>>
    ELSE IF Len(tp) = 2 /\ tp[1] \in {49, 50, 51} /\ tp[2] \in {48, 49}
    THEN << CASE tp[1] = 49 -> "Video"
              [] tp[1] = 50 -> "Audio"
              [] tp[1] = 51 -> "AudioAndVideo",
            IF tp[1] = 49 THEN 1 ELSE 0 >>
    ELSE <<"Unknown", -1>>

\* the parameter of the "1AVMT" arm: the variant and its flag (1 for true,
\* 0 for false, -1 when the variant carries none)
AvMuteParameter(tp) ==
    IF Len(tp) = 1 /\ tp[1] = PJLINK_QUERY THEN <<"Query", -1>>
    ELSE IF Len(tp) = 2 /\ tp[1] \in {49, 50, 51} /\ tp[2] \in {48, 49}
    THEN << CASE tp[1] = 49 -> "Video"
              [] tp[1] = 50 -> "Audio"
              [] tp[1] = 51 -> "AudioAndVideo",
            IF tp[2] = 49 THEN 1 ELSE 0 >>
    ELSE <<"Unknown", -1>>

\* the first byte of the three is not compared with '?'
InputNameParameter_AnyFirstByte(tp) ==
    IF Len(tp) = 3 THEN input_param_parse(TRUE, tp[2], tp[3]) ELSE <<"Unknown", -1>>

\* the parameter of the "2INNM" arm
InputNameParameter(tp) ==
    IF Len(tp) = 3
    THEN IF tp[1] = PJLINK_QUERY THEN input_param_parse(TRUE, tp[2], tp[3])
         ELSE <<"Unknown", -1>>
    ELSE <<"Unknown", -1>>

\* the 2SVOL / 2MVOL arms
VolumeCommand(tag, tp) ==
    IF Len(tp) = 1
    THEN Cmd(tag, IF tp[1] = 49 THEN "Increase"
                  ELSE IF tp[1] = 48 THEN "Decrase" ELSE "Unknown", -1)
    ELSE CmdUnknown

\* PjLinkCommand::from_raw_payload (defined where ClassifyPanics is false)
from_raw_payload(raw) ==
    LET tp == raw.transmission_parameter
        body == raw.command_body_with_class
        is_class_2 == body[1] = 50
        len == Len(tp)
    IN  CASE body = Body_1POWR ->
               Cmd("Power1", CASE tp[1] = 49 -> "On"
                               [] tp[1] = 48 -> "Off"
                               [] tp[1] = PJLINK_QUERY -> "Query"
                               [] OTHER -> "Unknown", -1)
          [] body = Body_1INPT \/ body = Body_2INPT ->
               LET p == IF len = 1 /\ tp[1] = PJLINK_QUERY THEN <<"Query", -1>>
                        ELSE IF len = 2 THEN input_param_parse(is_class_2, tp[1], tp[2])
                        ELSE <<"Unknown", -1>>
               IN  Cmd(IF is_class_2 THEN "Input2" ELSE "Input1", p[1], p[2])
          [] body = Body_1AVMT ->
               Cmd("AvMute1", AvMuteParameter(tp)[1], AvMuteParameter(tp)[2])
          [] body = Body_1ERST -> Cmd("ErrorStatus1", "None", -1)
          [] body = Body_1LAMP -> Cmd("Lamp1", "None", -1)
          [] body = Body_1INST \/ body = Body_2INST ->
               Cmd(IF is_class_2 THEN "InputTogglingList2" ELSE "InputTogglingList1",
                   "None", -1)
          [] body = Body_1NAME -> Cmd("Name1", "None", -1)
          [] body = Body_1INF1 -> Cmd("InfoManufacturer1", "None", -1)
          [] body = Body_1INF2 -> Cmd("InfoProductName1", "None", -1)
          [] body = Body_1INFO -> Cmd("InfoOther1", "None", -1)
          [] body = Body_1CLSS -> Cmd("Class1", "None", -1)
          [] body = Body_2SNUM -> Cmd("SerialNumber2", "None", -1)
          [] body = Body_2SVER -> Cmd("SoftwareVersion2", "None", -1)
          [] body = Body_2INNM ->
               Cmd("InputTerminalName2", InputNameParameter(tp)[1],
                   InputNameParameter(tp)[2])
          [] body = Body_2IRES -> Cmd("InputResolution2", "None", -1)
          [] body = Body_2RRES -> Cmd("RecommendResolution2", "None", -1)
          [] body = Body_2FILT -> Cmd("FilterUsageTime2", "None", -1)
          [] body = Body_2RLMP -> Cmd("LampReplacementModelNumber2", "None", -1)
          [] body = Body_2RFIL -> Cmd("FilterReplacementModelNumber2", "None", -1)
          [] body = Body_2SVOL -> VolumeCommand("SpeakerVolumeAdjustment2", tp)
          [] body = Body_2MVOL -> VolumeCommand("MicrophoneVolumeAdjustment2", tp)
          [] body = Body_2FREZ ->
               IF len = 1
               THEN Cmd("Freeze2", CASE tp[1] = PJLINK_QUERY -> "Query"
                                     [] tp[1] = 49 -> "Freeze"
                                     [] tp[1] = 48 -> "Unfreeze"
                                     [] OTHER -> "Unknown", -1)
               ELSE CmdUnknown
          [] OTHER -> CmdUnknown

(***************************************************************************)
(* The environment: the handler behind the Mutex, the peers, the random    *)
(* source.                                                                 *)
(***************************************************************************)
None == [some |-> FALSE, val |-> <<>>]
Some(v) == [some |-> TRUE, val |-> v]

\* "JBMIA"
Password == <<74, 66, 77, 73, 65>>
\* the password the handler is configured with (get_password returns it)
PasswordChoices == {None, Some(Password)}

\* rand::thread_rng().next_u32(): a u32 as its two 16-bit halves; the model
\* draws from 0x01234567 and 0xABCDEF01
SaltNumbers == {<<291, 17767>>, <<43981, 61185>>}

Resp(kind, bytes) == [kind |-> kind, bytes |-> bytes]
\* what PjLinkHandler::handle_command may return
HandlerResponses == {Resp("Ok", <<>>), Resp("Single", <<48>>)}

\* "%1POWR ?", "%1CLSS ?", "%1POWR " (no parameter), "%1PO"
RequestPowerQuery == <<37, 49, 80, 79, 87, 82, 32, 63>>
RequestClassQuery == <<37, 49, 67, 76, 83, 83, 32, 63>>
RequestPowerEmpty == <<37, 49, 80, 79, 87, 82, 32>>
ShortLine == <<37, 49, 80, 79>>
\* "X1CLSS ?": a request whose first byte is not the header
BadHeaderLine == <<88, 49, 67, 76, 83, 83, 32, 63>>

\* the hash a peer that knows the password sends when the salt is n
HashFor(n) == ExpectedHash(FormatSalt(n), Password)
\* the hashes of the salts the model draws
KnownHashes == {HashFor(n) : n \in SaltNumbers}

\* 32 bytes '0': a hash that matches no salt
ZeroHash == [i \in 1..HashLen |-> 48]

\* the lines (terminator stripped) a peer may send on the connection under
\* study: a hash followed by a request, the hash for 0x01234567 alone
\* (exactly 32 bytes) and followed by a request without parameter, a request
\* alone, a request without parameter, a line shorter than any request, a
\* request with another first byte than the header
ClientLines ==
    {h \o RequestPowerQuery : h \in KnownHashes \cup {ZeroHash}}
    \cup {HashFor(<<291, 17767>>), HashFor(<<291, 17767>>) \o RequestPowerEmpty,
          RequestClassQuery, RequestPowerEmpty, ShortLine, BadHeaderLine}

\* the lines the peers send when several connections are served at once
ConcurrentLines ==
    {HashFor(<<291, 17767>>) \o RequestPowerQuery, RequestClassQuery, ShortLine}

\* the sequences of at most n lines over the set lines
RECURSIVE Scripts(_, _)
Scripts(n, lines) ==
    IF n = 0 THEN {<<>>}
    ELSE Scripts(n - 1, lines)
         \cup {Append(s, line) : s \in {x \in Scripts(n - 1, lines) : Len(x) = n - 1},
                                 line \in lines}

(***************************************************************************)
(* The mock projector (PjLinkMockProjector), the PjLinkHandler the runner  *)
(* puts behind the Mutex.                                                  *)
(***************************************************************************)
\* PjLinkMockProjectorOptions with the default values of Opts (the password
\* is handler.password): class_type '2', "mateusmeyer mocks",
\* "projector-mock", "projector-001", the serial number, "1.0", "1920x1080"
MockOptions ==
    [ class_type |-> 50,
      manufacturer_name |-> <<109, 97, 116, 101, 117, 115, 109, 101, 121, 101, 114, 32, 109, 111, 99, 107, 115>>,
      product_name |-> <<112, 114, 111, 106, 101, 99, 116, 111, 114, 45, 109, 111, 99, 107>>,
      projector_name |-> <<112, 114, 111, 106, 101, 99, 116, 111, 114, 45, 48, 48, 49>>,
      serial_number |-> <<102, 97, 97, 49, 51, 101, 98, 101, 101, 50, 49, 54, 55, 55, 97, 50, 99, 48, 54, 52, 102, 100, 54, 99, 101, 48, 54, 55, 98, 53, 48, 101>>,
      software_version |-> <<49, 46, 48>>,
      screen_resolution |-> <<49, 57, 50, 48, 120, 49, 48, 56, 48>>,
      recommended_screen_resolution |-> <<49, 57, 50, 48, 120, 49, 48, 56, 48>> ]

\* PjLinkMockProjector::new: the state of the projector when the runner starts
MockNew ==
    [ power_on |-> 48,
      error_fan_status |-> 48, error_lamp_status |-> 48,
      error_temperature_status |-> 48, error_cover_open_status |-> 48,
      error_filter_status |-> 48, error_other_status |-> 48,
      lamp_hours |-> <<49, 50, 48>>,
      filter_hours |-> <<48>>,
      mute_status |-> <<51, 48>>,
      input_status |-> <<49, 49>>,
      available_inputs |-> <<49, 49, 32, 49, 50, 32, 51, 49, 32, 52, 49>>,
      freeze_status |-> 48 ]

\* what a call of handle_command leaves behind: self.state and the response
Handled(state, response) == [state |-> state, response |-> response]

\* PjLinkInputCommandStatus of a variant of PjLinkInputCommandParameter
InputStatus(param) ==
    CASE param = "RGB" -> 49
      [] param = "Video" -> 50
      [] param = "Digital" -> 51
      [] param = "Storage" -> 52
      [] param = "Network" -> 53
      [] param = "Internal" -> 54

\* the On arm answers Ok and leaves power_on as it is
MockPower_OnNotStored(state, param) ==
    CASE param = "Query" -> Handled(state, Resp("Single", <<state.power_on>>))
      [] param = "On" -> Handled(state, Resp("Ok", <<>>))
      [] param = "Off" -> Handled([state EXCEPT !.power_on = 48], Resp("Ok", <<>>))
      [] OTHER -> Handled(state, Resp("OutOfParameter", <<>>))

\* the Power1 arms: Query answers with power_on, On and Off store the status
\* and answer Ok; Power1(Unknown) reaches the last arm of the match
MockPower(state, param) ==
    CASE param = "Query" -> Handled(state, Resp("Single", <<state.power_on>>))
      [] param = "On" -> Handled([state EXCEPT !.power_on = 49], Resp("Ok", <<>>))
      [] param = "Off" -> Handled([state EXCEPT !.power_on = 48], Resp("Ok", <<>>))
      [] OTHER -> Handled(state, Resp("OutOfParameter", <<>>))

\* the Input1 | Input2 arms
MockInput(state, param, value) ==
    CASE param = "Query" -> Handled(state, Resp("Multiple", state.input_status))
      [] param = "Unknown" -> Handled(state, Resp("OutOfParameter", <<>>))
      [] OTHER -> Handled([state EXCEPT !.input_status = <<InputStatus(param), value>>],
                          Resp("Ok", <<>>))

\* the mute_status one channel's set command leaves: own and other are the
\* PjLinkMuteCommandStatus of the channel of the command and of the other
\* channel, mute the flag of the command
MuteOne(mute_status, own, other, mute) ==
    LET is_muted == mute_status[2] = 49
        current_muted_item == mute_status[1]
    IN  IF current_muted_item = other /\ is_muted /\ mute THEN <<51, 49>>
        ELSE IF current_muted_item = 51 /\ is_muted /\ ~mute THEN <<other, 49>>
        ELSE <<current_muted_item, IF mute THEN 49 ELSE 48>>

\* the AvMute1 arms
MockMute(state, param, flag) ==
    CASE param = "Query" -> Handled(state, Resp("Multiple", state.mute_status))
      [] param = "Audio" ->
           Handled([state EXCEPT !.mute_status = MuteOne(@, 50, 49, flag = 1)],
                   Resp("Ok", <<>>))
      [] param = "Video" ->
           Handled([state EXCEPT !.mute_status = MuteOne(@, 49, 50, flag = 1)],
                   Resp("Ok", <<>>))
      [] param = "AudioAndVideo" ->
           Handled([state EXCEPT !.mute_status = <<51, IF flag = 1 THEN 49 ELSE 48>>],
                   Resp("Ok", <<>>))
      [] OTHER -> Handled(state, Resp("OutOfParameter", <<>>))

\* the InputTerminalName2 arm: format!("VGA{}", input as char) and the like
MockInputName(state, param, value) ==
    CASE param = "RGB" -> Handled(state, Resp("Multiple", <<86, 71, 65>> \o <<value>>))
      [] param = "Video" ->
           Handled(state, Resp("Multiple", <<65, 110, 97, 108, 111, 103>> \o <<value>>))
      [] param = "Digital" ->
           Handled(state, Resp("Multiple", <<72, 68, 77, 73>> \o <<value>>))
      [] param = "Network" ->
           Handled(state, Resp("Multiple", <<78, 101, 116, 119, 111, 114, 107>> \o <<value>>))
      [] param = "Storage" ->
           Handled(state, Resp("Multiple", <<83, 116, 111, 114, 97, 103, 101>> \o <<value>>))
      [] param = "Internal" ->
           Handled(state, Resp("Multiple", <<73, 110, 116, 101, 114, 110, 97, 108>> \o <<value>>))
      [] OTHER -> Handled(state, Resp("OutOfParameter", <<>>))

\* the Freeze2 arms
MockFreeze(state, param) ==
    CASE param = "Query" -> Handled(state, Resp("Single", <<state.freeze_status>>))
      [] param = "Freeze" -> Handled([state EXCEPT !.freeze_status = 49], Resp("Ok", <<>>))
      [] param = "Unfreeze" -> Handled([state EXCEPT !.freeze_status = 48], Resp("Ok", <<>>))
      [] OTHER -> Handled(state, Resp("OutOfParameter", <<>>))

\* the last arm of the match, for every command no other arm takes
LastArm(command) == Resp("OutOfParameter", <<>>)

\* PjLinkMockProjector::handle_command on self.state (the raw command and the
\* connection are not looked at)
handle_command(state, command) ==
    LET tag == command.tag
        param == command.param
        answer(response) == Handled(state, response)
    IN  CASE tag = "Power1" -> MockPower(state, param)
          [] tag \in {"Input1", "Input2"} -> MockInput(state, param, command.value)
          [] tag = "AvMute1" -> MockMute(state, param, command.value)
          [] tag = "ErrorStatus1" ->
               answer(Resp("Multiple",
                           << state.error_fan_status, state.error_lamp_status,
                              state.error_temperature_status,
                              state.error_cover_open_status,
                              state.error_filter_status, state.error_other_status >>))
          [] tag = "Lamp1" ->
               answer(Resp("Multiple", state.lamp_hours \o <<32, state.power_on>>))
          [] tag \in {"InputTogglingList1", "InputTogglingList2"} ->
               answer(Resp("Multiple", state.available_inputs))
          [] tag = "Name1" -> answer(Resp("Multiple", MockOptions.projector_name))
          [] tag = "InfoManufacturer1" ->
               answer(Resp("Multiple", MockOptions.manufacturer_name))
          [] tag = "InfoProductName1" -> answer(Resp("Multiple", MockOptions.product_name))
          [] tag = "InfoOther1" -> answer(Resp("Multiple", <<>>))
          [] tag = "Class1" -> answer(Resp("Single", <<MockOptions.class_type>>))
          [] tag = "SerialNumber2" -> answer(Resp("Multiple", MockOptions.serial_number))
          [] tag = "SoftwareVersion2" ->
               answer(Resp("Multiple", MockOptions.software_version))
          [] tag = "InputTerminalName2" -> MockInputName(state, param, command.value)
          [] tag = "InputResolution2" ->
               answer(Resp("Multiple", MockOptions.screen_resolution))
          [] tag = "RecommendResolution2" ->
               answer(Resp("Multiple", MockOptions.recommended_screen_resolution))
          [] tag = "FilterUsageTime2" -> answer(Resp("Multiple", state.filter_hours))
          [] tag \in {"LampReplacementModelNumber2", "FilterReplacementModelNumber2"} ->
               answer(Resp("Empty", <<>>))
          [] tag \in {"SpeakerVolumeAdjustment2", "MicrophoneVolumeAdjustment2"} ->
               answer(IF param = "Unknown" THEN Resp("OutOfParameter", <<>>)
                      ELSE Resp("Ok", <<>>))
          [] tag = "Freeze2" -> MockFreeze(state, param)
          [] OTHER -> answer(LastArm(command))

(***************************************************************************)
(* State.                                                                  *)
(***************************************************************************)
VARIABLES
    pc,           \* pc[c]: where the worker thread of connection c is
    local,        \* local[c]: the local variables of handle_connection
    counter,      \* shared_connection_counter (AtomicU64)
    lockHolder,   \* the worker holding the handler Mutex, 0 when free, -1 when poisoned
    handler,      \* the state of the PjLinkHandler behind the Mutex
    inbound,      \* inbound[c]: lines sent by the peer and not yet read
    sent,         \* lines sent by all peers so far
    observed,     \* the connections whose history is recorded
    log,          \* log[c]: what happened on connection c, in order (history)
    probe,        \* the input and the result of a function applied on its own
    udp,          \* the UDP worker: its position and the locals of its loop
    udpLog        \* the datagrams received and sent by the UDP worker (history)

vars == <<pc, local, counter, lockHolder, handler, inbound, sent, observed, log, probe,
          udp, udpLog>>

NoRaw == [command_body_with_class |-> <<>>, separator |-> 0,
          transmission_parameter |-> <<>>]

InitLocal ==
    [ use_auth |-> FALSE, password_salt |-> None, password |-> None,
      has_authenticated |-> FALSE, connection_id |-> -1,
      input_command_buffer |-> <<>>, raw_command |-> NoRaw,
      command |-> CmdUnknown, output_buffer |-> <<>> ]

\* an entry of log[c]: what happened, the bytes it is about (the line read,
\* the buffer handed to the socket) and an argument (for a write the byte
\* count the socket returned, -1 for an error)
Ev(ev, bytes, arg) == [ev |-> ev, bytes |-> bytes, arg |-> arg]
Logged(c, e) == IF c \in observed THEN [log EXCEPT ![c] = Append(@, e)] ELSE log

\* no origin: message_origin before a datagram has been received
NoOrigin == [ip |-> "none", port |-> 0]

\* the UDP worker before listen_multicast is called
UdpOff == [pc |-> "off", port |-> 0, input_command |-> <<>>, message_origin |-> NoOrigin]

\* the state after PjLinkListener::new, for a handler with either password
\* setting; handler.calls is what the handler has been called with so far,
\* handler.state the state a mock projector keeps and handler.handled the
\* commands it has handled, in order (history)
Start ==
    /\ pc = [c \in Conn |-> "idle"]
    /\ local = [c \in Conn |-> InitLocal]
    /\ counter = 0
    /\ lockHolder = 0
    /\ handler \in [password : PasswordChoices, calls : {{}},
                    state : {MockNew}, handled : {<<>>}]
    /\ inbound = [c \in Conn |-> <<>>]
    /\ sent = 0
    /\ log = [c \in Conn |-> <<>>]
    /\ udp = UdpOff
    /\ udpLog = <<>>

\* no function is applied on its own while the server runs
NoProbe == [fn |-> "none"]

Init == Start /\ observed = {} /\ probe = NoProbe

SessionInit == Start /\ observed = {1} /\ probe = NoProbe

\* the worker has returned or its thread has died: the stream is dropped
Ended(c) == pc[c] \in {"closed", "panicked"}

(***************************************************************************)
(* Socket outcomes.                                                        *)
(***************************************************************************)
\* the byte counts n < len a short write may transfer
ShortCounts(len) == {n \in {len - 1} : 0 < n}
\* the results of TcpStream::write on a buffer of len bytes: Ok(n), or -1
\* for Err
WriteResults(len) == {len, -1} \cup ShortCounts(len)
\* the results of write_all, which loops until all is written: Ok(len), or
\* -1 for Err
WriteAllResults(len) == {len, -1}

(***************************************************************************)
(* The peers.                                                              *)
(***************************************************************************)
\* a line of the peer arrives while the worker waits for it
Arrive(c, line) ==
    /\ pc[c] = "read"
    /\ inbound[c] = <<>>
    /\ sent < MaxLines
    /\ inbound' = [inbound EXCEPT ![c] = <<line>>]
    /\ sent' = sent + 1
    /\ UNCHANGED <<udp, udpLog, probe, pc, local, counter, lockHolder, handler, observed, log>>

\* the peer closes (or the connection breaks) while the worker waits for
\* the first byte of a line: read_command returns the error, break 'message
PeerClose(c) ==
    /\ pc[c] = "read"
    /\ inbound[c] = <<>>
    /\ pc' = [pc EXCEPT ![c] = "closed"]
    /\ log' = Logged(c, Ev("eof", <<>>, 0))
    /\ UNCHANGED <<udp, udpLog, probe, local, counter, lockHolder, handler, inbound, sent, observed>>

(***************************************************************************)
(* PjLinkListener::listen: accept, spawn a worker.                         *)
(***************************************************************************)
\* script: the lines the peer sends on the connection; it may send them
\* without waiting for any answer, so they are queued in the socket
Accept(c, script) ==
    /\ pc[c] = "idle"
    /\ \A d \in Conn : d < c => pc[d] # "idle"
    /\ sent + Len(script) <= MaxLines
    /\ pc' = [pc EXCEPT ![c] = "start"]
    /\ inbound' = [inbound EXCEPT ![c] = script]
    /\ sent' = sent + Len(script)
    /\ log' = Logged(c, Ev("accept", <<>>, script))
    /\ UNCHANGED <<udp, udpLog, probe, local, counter, lockHolder, handler, observed>>

\* a fetch_add that leaves the counter where it was
NextCounter_Same(n) == n

\* the value fetch_add(1, SeqCst) stores back into shared_connection_counter
NextCounter(n) == n + 1

\* the handler is passed whatever the shared counter holds at the call
IdArgument_Reload(l, shared_counter) == shared_counter

\* &connection_id, the worker's local, as passed to the handler
IdArgument(l, shared_counter) == l.connection_id

\* what the handler observes of one call: the session it came from, the
\* method, and the connection id argument
Call(c, fn, id) == [session |-> c, fn |-> fn, connection_id |-> id]

(***************************************************************************)
(* handle_connection, greeting.                                            *)
(***************************************************************************)
\* connection_id = shared_connection_counter.fetch_add(1, SeqCst)
FetchAdd(c) ==
    /\ pc[c] = "start"
    /\ local' = [local EXCEPT ![c].connection_id = counter]
    /\ counter' = NextCounter(counter)
    /\ pc' = [pc EXCEPT ![c] = "greet_lock"]
    /\ UNCHANGED <<udp, udpLog, probe, lockHolder, handler, inbound, sent, observed, log>>

\* lockHolder of a Mutex that is free and poisoned: a thread has panicked
\* while it held the guard, and every lock() from then on returns Err
Poisoned == -1

\* the Mutex after the thread of worker c has died by a panic: unwinding
\* drops the guard if c holds one, which poisons the Mutex
LockAfterAbort(holder, c) == IF holder = c THEN Poisoned ELSE holder

\* lock() returns at once whoever holds the Mutex
MutexAvailable_Always(holder) == TRUE

\* Mutex::lock returns only when no thread holds the Mutex
MutexAvailable(holder) == holder = 0

\* lock_handler.lock() succeeds and handler.get_password(&connection_id) starts
GreetLock(c) ==
    /\ pc[c] = "greet_lock"
    /\ MutexAvailable(lockHolder)
    /\ lockHolder' = c
    /\ pc' = [pc EXCEPT ![c] = "get_password"]
    /\ handler' = [handler EXCEPT !.calls =
                      @ \cup {Call(c, "get_password", IdArgument(local[c], counter))}]
    /\ log' = Logged(c, Ev("get_password", <<>>, IdArgument(local[c], counter)))
    /\ UNCHANGED <<udp, udpLog, probe, local, counter, inbound, sent, observed>>

\* handler.get_password returns
GetPasswordReturn(c) ==
    /\ pc[c] = "get_password"
    /\ local' = [local EXCEPT ![c].password = handler.password]
    /\ pc' = [pc EXCEPT ![c] = "greet_write"]
    /\ UNCHANGED <<udp, udpLog, probe, counter, lockHolder, handler, inbound, sent, observed, log>>

\* the nullified prologue whatever get_password returned
Prologue_AlwaysNullified(password, string_salt) == PJLINK_NULLIFIED_SECURITY

\* generate_nullified_security / generate_password_security
Prologue(password, string_salt) ==
    IF ~password.some THEN PJLINK_NULLIFIED_SECURITY
    ELSE PJLINK_SECURITY \o string_salt \o <<PJLINK_TERMINATOR>>

\* the guard of the greeting block is never dropped: the worker keeps the
\* Mutex for the session
LockAfterGreeting_Kept(c) == c

\* the Mutex holder after the guard of the greeting block has gone out of
\* scope
LockAfterGreeting(c) == 0

\* handle_password_input: the prologue, stream.write_all(&auth_buffer) and
\* stream.flush() (a no-op on a TcpStream), then the end of the greeting block
GreetWrite(c, n) ==
    /\ pc[c] = "greet_write"
    /\ lockHolder' = LockAfterGreeting(c)
    /\ LET string_salt == FormatSalt(n)
           auth_buffer == Prologue(local[c].password, string_salt)
       IN  \E res \in WriteAllResults(Len(auth_buffer)) :
              /\ log' = Logged(c, Ev("prologue", auth_buffer, res))
              /\ IF res >= 0
                 THEN /\ local' = [local EXCEPT
                            ![c].use_auth = local[c].password.some,
                            ![c].password_salt =
                                IF local[c].password.some THEN Some(string_salt)
                                ELSE None]
                      /\ pc' = [pc EXCEPT ![c] = "read"]
                 ELSE /\ pc' = [pc EXCEPT ![c] = "closed"]
                      /\ UNCHANGED local
    /\ UNCHANGED <<udp, udpLog, probe, counter, handler, inbound, sent, observed>>

(***************************************************************************)
(* handle_connection, the 'message loop.                                   *)
(***************************************************************************)
\* the check of line 940 skipped for every line that starts with '%'
NeedsHashCheck_SkipsHeader(use_auth, has_authenticated, buffer) ==
    use_auth /\ buffer[1] # PJLINK_HEADER

\* the condition of line 940: use_auth && (!has_authenticated || buffer[0] != '%')
NeedsHashCheck(use_auth, has_authenticated, buffer) ==
    use_auth /\ (~has_authenticated \/ buffer[1] # PJLINK_HEADER)

\* line 940 indexes buffer[0] when use_auth && has_authenticated: an empty
\* line panics there
HeaderCheckPanics(use_auth, has_authenticated, buffer) ==
    use_auth /\ has_authenticated /\ buffer = <<>>

\* the length condition of handle_password_hash_response
LongEnoughForHash(buffer) == Len(buffer) > HashLen

\* any 32 bytes pass for the hash
HashAccepted_Any(buffer, password, password_salt) == TRUE

\* format!("{:x}", md5(salt ++ password)).as_bytes() == buffer[0..32]
HashAccepted(buffer, password, password_salt) ==
    ExpectedHash(password_salt.val, password.val) = Slice(buffer, 0, HashLen)

\* the hash is verified on every line the check of line 940 lets in, also
\* when the session is authenticated
handle_password_hash_response_AlwaysVerifies(has_authenticated, buffer, password, password_salt) ==
    LET auth_error ==
            ~(LongEnoughForHash(buffer) /\ HashAccepted(buffer, password, password_salt))
    IN  IF auth_error THEN [result |-> "auth_error", buffer |-> buffer]
        ELSE IF Len(buffer) < HashLen THEN [result |-> "panic", buffer |-> buffer]
        ELSE [result |-> "ok", buffer |-> Slice(buffer, HashLen, Len(buffer))]

\* handle_password_hash_response up to its write of PJLINK_SECURITY_ERRA:
\* "auth_error" when the error line is to be written, "panic" when
\* drain(0..32) is out of range, else "ok" with the hash drained
handle_password_hash_response(has_authenticated, buffer, password, password_salt) ==
    LET auth_error ==
            ~has_authenticated
            /\ ~(LongEnoughForHash(buffer) /\ HashAccepted(buffer, password, password_salt))
    IN  IF auth_error THEN [result |-> "auth_error", buffer |-> buffer]
        ELSE IF Len(buffer) < HashLen THEN [result |-> "panic", buffer |-> buffer]
        ELSE [result |-> "ok", buffer |-> Slice(buffer, HashLen, Len(buffer))]

\* lines 940-961 on the locals l: the authentication check of a line, "parse"
\* when the line goes on to from_buffer.  (The singleton sets here and below
\* make the result of a call a value computed once.)
AuthOutcome(l) ==
    LET buffer == l.input_command_buffer
        stay == [next |-> "panicked", has_authenticated |-> l.has_authenticated,
                 buffer |-> buffer]
    IN  IF HeaderCheckPanics(l.use_auth, l.has_authenticated, buffer) THEN stay
        ELSE IF NeedsHashCheck(l.use_auth, l.has_authenticated, buffer)
        THEN CHOOSE o \in
                 { CASE r.result = "auth_error" -> [stay EXCEPT !.next = "erra_write"]
                     [] r.result = "panic" -> stay
                     [] r.result = "ok" ->
                          [next |-> "parse", has_authenticated |-> TRUE,
                           buffer |-> r.buffer]
                   : r \in {handle_password_hash_response(
                               l.has_authenticated, buffer, l.password, l.password_salt)} }
                 : TRUE
        ELSE [stay EXCEPT !.next = "parse"]

\* lines 940-964 on the locals l: where the worker goes next and with what
LineOutcome(l) ==
    CHOOSE o \in
        { IF checked.next # "parse" THEN checked
          ELSE IF FromBufferPanics(checked.buffer) THEN [checked EXCEPT !.next = "panicked"]
          ELSE IF ClassifyPanics(from_buffer(checked.buffer))
          THEN [checked EXCEPT !.next = "panicked"]
          ELSE [checked EXCEPT !.next = "cmd_lock"]
          : checked \in {AuthOutcome(l)} }
        : TRUE

\* read_command returns the line that arrived last
NextLine_Last(queue) == queue[Len(queue)]

\* which of the lines waiting in the socket read_command returns
NextLine(queue) == Head(queue)

\* the hash of a line is compared with the password the handler holds when
\* the line is read
ReadCommand_CurrentPassword(c) ==
    /\ pc[c] = "read"
    /\ inbound[c] # <<>>
    /\ \E line \in {NextLine(inbound[c])} :
          \E o \in {LineOutcome([local[c] EXCEPT !.input_command_buffer = line,
                                                 !.password = handler.password])} :
              /\ pc' = [pc EXCEPT ![c] = o.next]
              /\ local' = [local EXCEPT
                    ![c].has_authenticated = o.has_authenticated,
                    ![c].input_command_buffer = o.buffer,
                    ![c].raw_command =
                        IF o.next = "cmd_lock" THEN from_buffer(o.buffer) ELSE NoRaw,
                    ![c].command =
                        IF o.next = "cmd_lock"
                        THEN from_raw_payload(from_buffer(o.buffer))
                        ELSE CmdUnknown]
              /\ log' = Logged(c, Ev("read", line, 0))
              /\ lockHolder' = IF o.next = "panicked" THEN LockAfterAbort(lockHolder, c)
                                ELSE lockHolder
    /\ inbound' = [inbound EXCEPT ![c] = Tail(@)]
    /\ UNCHANGED <<udp, udpLog, probe, counter, handler, sent, observed>>

\* one turn of the 'message loop up to the next blocking point: read_command
\* (bytes up to the terminator), the authentication check, from_buffer and
\* from_raw_payload; a panic in any of them ends the thread
ReadCommand(c) ==
    /\ pc[c] = "read"
    /\ inbound[c] # <<>>
    /\ \E line \in {NextLine(inbound[c])} :
          \E o \in {LineOutcome([local[c] EXCEPT !.input_command_buffer = line])} :
              /\ pc' = [pc EXCEPT ![c] = o.next]
              /\ local' = [local EXCEPT
                    ![c].has_authenticated = o.has_authenticated,
                    ![c].input_command_buffer = o.buffer,
                    ![c].raw_command =
                        IF o.next = "cmd_lock" THEN from_buffer(o.buffer) ELSE NoRaw,
                    ![c].command =
                        IF o.next = "cmd_lock"
                        THEN from_raw_payload(from_buffer(o.buffer))
                        ELSE CmdUnknown]
              /\ log' = Logged(c, Ev("read", line, 0))
              /\ lockHolder' = IF o.next = "panicked" THEN LockAfterAbort(lockHolder, c)
                                ELSE lockHolder
    /\ inbound' = [inbound EXCEPT ![c] = Tail(@)]
    /\ UNCHANGED <<udp, udpLog, probe, counter, handler, sent, observed>>

\* stream.write(PJLINK_SECURITY_ERRA) of handle_password_hash_response, then
\* break 'message whatever the result
ErraWrite(c) ==
    /\ pc[c] = "erra_write"
    /\ \E res \in WriteResults(Len(PJLINK_SECURITY_ERRA)) :
          log' = Logged(c, Ev("erra", PJLINK_SECURITY_ERRA, res))
    /\ pc' = [pc EXCEPT ![c] = "closed"]
    /\ UNCHANGED <<udp, udpLog, probe, local, counter, lockHolder, handler, inbound, sent, observed>>

\* lock_handler.lock() succeeds and handler.handle_command(command,
\* &raw_command, &connection_id) starts
CommandLock(c) ==
    /\ pc[c] = "cmd_lock"
    /\ MutexAvailable(lockHolder)
    /\ lockHolder' = c
    /\ pc' = [pc EXCEPT ![c] = "handle_command"]
    /\ handler' = [handler EXCEPT !.calls =
                      @ \cup {Call(c, "handle_command", IdArgument(local[c], counter))}]
    /\ log' = Logged(c, Ev("handle_command", <<>>,
                           [raw |-> local[c].raw_command,
                            command |-> local[c].command,
                            connection_id |-> IdArgument(local[c], counter)]))
    /\ UNCHANGED <<udp, udpLog, probe, local, counter, inbound, sent, observed>>

\* handler.handle_command returns; update_with_response and write_to_buffer
HandleCommandReturn(c, response) ==
    /\ pc[c] = "handle_command"
    /\ local' = [local EXCEPT ![c].output_buffer =
                    write_to_buffer(update_with_response(local[c].raw_command, response))]
    /\ pc' = [pc EXCEPT ![c] = "resp_write"]
    /\ UNCHANGED <<udp, udpLog, probe, counter, lockHolder, handler, inbound, sent, observed, log>>

\* the guard of the command block outlives the worker that took it
LockAfterCommand_Kept(c) == c

\* the Mutex holder after the guard of the command block has gone out of scope
LockAfterCommand(c) == 0

\* stream.write(&output_buffer) and stream.flush() (a no-op on a TcpStream),
\* then continue 'message or break 'message; either way the guard is dropped
RespWrite(c) ==
    /\ pc[c] = "resp_write"
    /\ lockHolder' = LockAfterCommand(c)
    /\ \E res \in WriteResults(Len(local[c].output_buffer)) :
          /\ log' = Logged(c, Ev("response", local[c].output_buffer, res))
          /\ IF res >= 0
             THEN /\ pc' = [pc EXCEPT ![c] = "read"]
                  /\ local' = [local EXCEPT ![c].input_command_buffer = <<>>,
                                            ![c].raw_command = NoRaw,
                                            ![c].command = CmdUnknown,
                                            ![c].output_buffer = <<>>]
             ELSE /\ pc' = [pc EXCEPT ![c] = "closed"]
                  /\ UNCHANGED local
    /\ UNCHANGED <<udp, udpLog, probe, counter, handler, inbound, sent, observed>>

(***************************************************************************)
(* Specification.                                                          *)
(***************************************************************************)
\* the steps of the worker thread of connection c
WorkerStep(c) ==
    \/ FetchAdd(c)
    \/ GreetLock(c)
    \/ GetPasswordReturn(c)
    \/ \E n \in SaltNumbers : GreetWrite(c, n)
    \/ ReadCommand(c)
    \/ ErraWrite(c)
    \/ CommandLock(c)
    \/ \E r \in HandlerResponses : HandleCommandReturn(c, r)
    \/ RespWrite(c)

Next ==
    \/ \E c \in Conn : Accept(c, <<>>)
    \/ \E c \in Conn, line \in ConcurrentLines : Arrive(c, line)
    \/ \E c \in Conn : WorkerStep(c)
    \/ \E c \in Conn : PeerClose(c)

\* NumConn connections served at once, each peer sending a line when its
\* worker waits for one
Spec == Init /\ [][Next]_vars

\* the sequences of lines the peer of the connection under study may send
SessionScripts == Scripts(MaxLines, ClientLines)

SessionNext ==
    \/ \E script \in SessionScripts : Accept(1, script)
    \/ WorkerStep(1)
    \/ PeerClose(1)

\* one connection, the peer sending any sequence of at most MaxLines lines
\* of ClientLines without waiting for the answers
SessionSpec == SessionInit /\ [][SessionNext]_vars

\* Spec with every worker thread scheduled: a worker that can take a step
\* (it is not waiting for the peer or for the Mutex) eventually takes one
FairSpec == Spec /\ \A c \in Conn : WF_vars(WorkerStep(c))

(***************************************************************************)
(* A peer that stops reading: the writes to it block.                      *)
(***************************************************************************)
\* the peer of c has stopped reading and the buffers of its connection are
\* full: write_all of the prologue, or write of the response, does not
\* return; the worker stays inside the block that holds the guard
WriteStalls(c) ==
    /\ pc[c] \in {"greet_write", "resp_write"}
    /\ pc' = [pc EXCEPT ![c] = "write_blocked"]
    /\ UNCHANGED <<udp, udpLog, probe, local, counter, lockHolder, handler, inbound, sent,
                   observed, log>>

StallNext ==
    \/ Next
    \/ \E c \in Conn : WriteStalls(c)

\* Spec with peers that may stop reading
StallSpec == Init /\ [][StallNext]_vars

\* StallSpec with every worker thread scheduled: a worker that can take a
\* step (it is not waiting for the peer, for the Mutex or in a blocked write)
\* eventually takes one; handler calls return
FairStallSpec == StallSpec /\ \A c \in Conn : WF_vars(WorkerStep(c))

(***************************************************************************)
(* Lines on which a worker aborts.                                         *)
(***************************************************************************)
\* the lines the peers send: the empty line, a line shorter than a request,
\* "%1POWR " without parameter, "X1CLSS ?" (8 bytes that do not start with
\* the header), and the hash for 0x01234567 followed by a power query
AbortLines ==
    {<<>>, ShortLine, RequestPowerEmpty, BadHeaderLine,
     HashFor(<<291, 17767>>) \o RequestPowerQuery}

AbortNext ==
    \/ \E c \in Conn : Accept(c, <<>>)
    \/ \E c \in Conn, line \in AbortLines : Arrive(c, line)
    \/ \E c \in Conn : WorkerStep(c)
    \/ \E c \in Conn : PeerClose(c)

\* NumConn connections served at once, the peers sending lines of AbortLines
AbortSpec == Init /\ [][AbortNext]_vars

(***************************************************************************)
(* A handler that panics.                                                  *)
(***************************************************************************)
\* get_password or handle_command panics: the thread of the worker unwinds
\* and dies, the guard is dropped and the Mutex is poisoned
HandlerPanics(c) ==
    /\ pc[c] \in {"get_password", "handle_command"}
    /\ pc' = [pc EXCEPT ![c] = "panicked"]
    /\ lockHolder' = LockAfterAbort(lockHolder, c)
    /\ log' = Logged(c, Ev("handler_panic", <<>>, 0))
    /\ UNCHANGED <<udp, udpLog, probe, local, counter, handler, inbound, sent, observed>>

\* lock_handler.lock() of line 917 returns Err on the poisoned Mutex: the
\* block is skipped, no get_password, no prologue, use_auth stays false and
\* the worker enters the 'message loop
GreetLockPoisoned(c) ==
    /\ pc[c] = "greet_lock"
    /\ lockHolder = Poisoned
    /\ pc' = [pc EXCEPT ![c] = "read"]
    /\ log' = Logged(c, Ev("greeting_skipped", <<>>, 0))
    /\ UNCHANGED <<udp, udpLog, probe, local, counter, lockHolder, handler, inbound, sent,
                   observed>>

\* lock_handler.lock() of line 966 returns Err on the poisoned Mutex: the
\* block is skipped, no handle_command, no response, and the loop goes on
\* with the next read_command
CommandLockPoisoned(c) ==
    /\ pc[c] = "cmd_lock"
    /\ lockHolder = Poisoned
    /\ pc' = [pc EXCEPT ![c] = "read"]
    /\ local' = [local EXCEPT ![c].input_command_buffer = <<>>,
                              ![c].raw_command = NoRaw,
                              ![c].command = CmdUnknown,
                              ![c].output_buffer = <<>>]
    /\ log' = Logged(c, Ev("command_skipped", <<>>, 0))
    /\ UNCHANGED <<udp, udpLog, probe, counter, lockHolder, handler, inbound, sent, observed>>

\* the steps of the worker thread of connection c when the handler may panic
PanicWorkerStep(c) ==
    \/ WorkerStep(c)
    \/ HandlerPanics(c)
    \/ GreetLockPoisoned(c)
    \/ CommandLockPoisoned(c)

\* the lines the peers send when the handler may panic
PanicLines == {RequestClassQuery, HashFor(<<291, 17767>>) \o RequestPowerQuery}

PanicNext ==
    \/ \E c \in Conn : Accept(c, <<>>)
    \/ \E c \in Conn, line \in PanicLines : Arrive(c, line)
    \/ \E c \in Conn : PanicWorkerStep(c)
    \/ \E c \in Conn : PeerClose(c)

\* NumConn connections served at once with a handler that may panic in any
\* of its calls; the history of every connection is recorded
PanicInit == Start /\ observed = Conn /\ probe = NoProbe

PanicSpec == PanicInit /\ [][PanicNext]_vars

(***************************************************************************)
(* The server with the mock projector as its handler.                      *)
(***************************************************************************)
\* "%1POWR 1", "%1POWR 0", "%1XXXX ?"
RequestPowerOn == <<37, 49, 80, 79, 87, 82, 32, 49>>
RequestPowerOff == <<37, 49, 80, 79, 87, 82, 32, 48>>
RequestUnknownOpcode == <<37, 49, 88, 88, 88, 88, 32, 63>>

\* the lines the peers of the mock projector send: the power commands and a
\* request with an opcode the classifier does not know, none with a hash
\* (a projector started with a password turns every one of them down)
MockLines ==
    {RequestPowerQuery, RequestPowerOn, RequestPowerOff, RequestUnknownOpcode}

\* an entry of handler.handled: the session the command came from, the
\* command and the response handle_command returned
HandledCall(c, command, response) ==
    [session |-> c, command |-> command, response |-> response]

\* the mock's handle_command runs and returns; update_with_response and
\* write_to_buffer
MockHandleCommandReturn(c) ==
    /\ pc[c] = "handle_command"
    /\ \E h \in {handle_command(handler.state, local[c].command)} :
          /\ handler' = [handler EXCEPT
                !.state = h.state,
                !.handled = Append(@, HandledCall(c, local[c].command, h.response))]
          /\ local' = [local EXCEPT ![c].output_buffer =
                          write_to_buffer(update_with_response(local[c].raw_command,
                                                               h.response))]
    /\ pc' = [pc EXCEPT ![c] = "resp_write"]
    /\ UNCHANGED <<udp, udpLog, probe, counter, lockHolder, inbound, sent, observed, log>>

\* the steps of the worker thread of connection c when the handler is the
\* mock projector
MockWorkerStep(c) ==
    \/ FetchAdd(c)
    \/ GreetLock(c)
    \/ GetPasswordReturn(c)
    \/ \E n \in SaltNumbers : GreetWrite(c, n)
    \/ ReadCommand(c)
    \/ ErraWrite(c)
    \/ CommandLock(c)
    \/ MockHandleCommandReturn(c)
    \/ RespWrite(c)

MockNext ==
    \/ \E c \in Conn : Accept(c, <<>>)
    \/ \E c \in Conn, line \in MockLines : Arrive(c, line)
    \/ \E c \in Conn : MockWorkerStep(c)
    \/ \E c \in Conn : PeerClose(c)

\* NumConn connections served at once by the mock projector, started with
\* either password setting
MockSpec == Init /\ [][MockNext]_vars

(***************************************************************************)
(* The UDP worker: PjLinkListener::listen_multicast and                    *)
(* handle_connection_multicast.                                            *)
(***************************************************************************)
\* the number of datagrams and receive errors the worker is given
MaxDatagrams == 2

PJLINK_MAX_BROADCAST_BUFFER_SIZE == 25

\* b"%2SRCH\x0d"
PJLINK_BROADCAST_SEARCH_START == <<37, 50, 83, 82, 67, 72, 13>>
\* b"2ACKN"
PJLINK_BROADCAST_MESSAGE_ACKN == <<50, 65, 67, 75, 78>>

\* the datagrams sent to the server: the search, the search followed by a
\* byte, the search without terminator, a terminator before the search,
\* "%2SRCh\r", "%1POWR ?\r", the empty datagram, and 25 bytes 'A' followed by
\* the search
UdpDatagrams ==
    { PJLINK_BROADCAST_SEARCH_START,
      PJLINK_BROADCAST_SEARCH_START \o <<120>>,
      <<37, 50, 83, 82, 67, 72>>,
      <<13>> \o PJLINK_BROADCAST_SEARCH_START,
      <<37, 50, 83, 82, 67, 104, 13>>,
      <<37, 49, 80, 79, 87, 82, 32, 63, 13>>,
      <<>>,
      [i \in 1..PJLINK_MAX_BROADCAST_BUFFER_SIZE |-> 65] \o PJLINK_BROADCAST_SEARCH_START }

\* the addresses datagrams come from
UdpOrigins ==
    { [ip |-> "10.0.0.7", port |-> 54321], [ip |-> "10.0.0.9", port |-> 4352] }

\* the ports the server's UDP socket may be bound to
UdpPorts == {4352, 14352}

\* get_mac_address(): Ok(Some(mac)) with the text format!("{}", mac) gives
\* for it, or Ok(None) / Err
MacResults == {Some(<<48, 50, 58, 48, 48, 58, 48, 48, 58, 48, 48, 58, 48, 48, 58, 48, 49>>), None}

\* "00:00:00:00:00:00"
NullMac == <<48, 48, 58, 48, 48, 58, 48, 48, 58, 48, 48, 58, 48, 48, 58, 48, 48>>

\* what the sending of a reply may come to: the datagram leaves, or bind,
\* connect or send fails
SendOutcomes == {"sent", "bind_error", "connect_error", "send_error"}

\* recv_from into the buffer resized to 25 zero bytes: the datagram's first
\* 25 bytes, the rest of the buffer left 0
RecvBuffer(datagram) ==
    [i \in 1..PJLINK_MAX_BROADCAST_BUFFER_SIZE |->
        IF i <= Len(datagram) THEN datagram[i] ELSE 0]

\* the for loop over the buffer: bytes are pushed up to and including the
\* first terminator, or all of them when there is none
ScanCommand(buffer) ==
    LET ends == {i \in 1..Len(buffer) : buffer[i] = PJLINK_TERMINATOR}
    IN  IF ends = {} THEN buffer
        ELSE SubSeq(buffer, 1, CHOOSE i \in ends : \A j \in ends : i <= j)

\* a command that starts like the search is taken for it
IsSearch_Prefix(input_command) ==
    IsPrefix(<<37, 50, 83, 82, 67, 72>>, input_command)

\* input_command == PJLINK_BROADCAST_SEARCH_START
IsSearch(input_command) == input_command = PJLINK_BROADCAST_SEARCH_START

\* the reply goes back to the address the datagram came from
ReplyAddress_Origin(message_origin, port) == message_origin

\* message_origin.set_port(port): the address the reply is sent to
ReplyAddress(message_origin, port) == [message_origin EXCEPT !.port = port]

\* the worker returns when recv_from fails
AfterRecvError_Exit(position) == "exited"

\* continue 'message after a recv_from error
AfterRecvError(position) == position

\* an entry of udpLog: what happened, the bytes of the datagram, the address
\* it came from or was sent to, and what get_mac_address returned (None when
\* it was not called)
UdpEv(ev, bytes, address, mac) ==
    [ev |-> ev, bytes |-> bytes, address |-> address, mac |-> mac]

\* the number of times recv_from has returned
Received == Len(SelectSeq(udpLog, LAMBDA e : e.ev \in {"datagram", "recv_error"}))

\* listen_multicast with a UDP socket bound to port: set_broadcast,
\* local_addr().port(), then the worker's loop starts
ListenMulticast(port) ==
    /\ udp.pc = "off"
    /\ udp' = [udp EXCEPT !.pc = "recv", !.port = port]
    /\ UNCHANGED <<pc, local, counter, lockHolder, handler, inbound, sent, observed, log,
                   probe, udpLog>>

\* recv_from returns a datagram and its origin; the buffer is scanned and
\* compared with the search
UdpReceive(datagram, origin) ==
    /\ udp.pc = "recv"
    /\ Received < MaxDatagrams
    /\ \E input_command \in {ScanCommand(RecvBuffer(datagram))} :
          udp' = [udp EXCEPT !.pc = IF IsSearch(input_command) THEN "reply" ELSE "recv",
                             !.input_command = input_command,
                             !.message_origin = origin]
    /\ udpLog' = Append(udpLog, UdpEv("datagram", datagram, origin, None))
    /\ UNCHANGED <<pc, local, counter, lockHolder, handler, inbound, sent, observed, log,
                   probe>>

\* recv_from returns an error: it is logged and the loop goes on
UdpRecvError ==
    /\ udp.pc = "recv"
    /\ Received < MaxDatagrams
    /\ udp' = [udp EXCEPT !.pc = AfterRecvError(udp.pc),
                          !.input_command = <<>>,
                          !.message_origin = NoOrigin]
    /\ udpLog' = Append(udpLog, UdpEv("recv_error", <<>>, NoOrigin, None))
    /\ UNCHANGED <<pc, local, counter, lockHolder, handler, inbound, sent, observed, log,
                   probe>>

\* the reply is built by the handler, under its Mutex
UdpReply_UnderLock(mac, outcome) ==
    /\ udp.pc = "reply"
    /\ lockHolder = 0
    /\ LET mac_address == IF mac.some THEN mac.val ELSE NullMac
           output_buffer ==
               write_to_buffer([command_body_with_class |-> PJLINK_BROADCAST_MESSAGE_ACKN,
                                separator |-> PJLINK_RESPONSE_SEPARATOR,
                                transmission_parameter |-> mac_address])
       IN  udpLog' = Append(udpLog,
                            IF outcome = "sent"
                            THEN UdpEv("reply", output_buffer,
                                       ReplyAddress(udp.message_origin, udp.port), mac)
                            ELSE UdpEv(outcome, output_buffer, NoOrigin, mac))
    /\ udp' = [udp EXCEPT !.pc = "recv"]
    /\ UNCHANGED <<pc, local, counter, lockHolder, handler, inbound, sent, observed, log,
                   probe>>

\* the search is answered: get_mac_address, write_to_buffer of the 2ACKN
\* payload, send_multicast_message (bind, set_port, connect, send); the
\* datagram is sent unless one of them fails, and the loop goes on
UdpReply(mac, outcome) ==
    /\ udp.pc = "reply"
    /\ LET mac_address == IF mac.some THEN mac.val ELSE NullMac
           output_buffer ==
               write_to_buffer([command_body_with_class |-> PJLINK_BROADCAST_MESSAGE_ACKN,
                                separator |-> PJLINK_RESPONSE_SEPARATOR,
                                transmission_parameter |-> mac_address])
       IN  udpLog' = Append(udpLog,
                            IF outcome = "sent"
                            THEN UdpEv("reply", output_buffer,
                                       ReplyAddress(udp.message_origin, udp.port), mac)
                            ELSE UdpEv(outcome, output_buffer, NoOrigin, mac))
    /\ udp' = [udp EXCEPT !.pc = "recv"]
    /\ UNCHANGED <<pc, local, counter, lockHolder, handler, inbound, sent, observed, log,
                   probe>>

\* the steps the UDP worker takes on its own
UdpWorkerStep == \E mac \in MacResults, outcome \in SendOutcomes : UdpReply(mac, outcome)

UdpInit == Start /\ ~handler.password.some /\ observed = {} /\ probe = NoProbe

UdpNext ==
    \/ \E port \in UdpPorts : ListenMulticast(port)
    \/ \E datagram \in UdpDatagrams, origin \in UdpOrigins : UdpReceive(datagram, origin)
    \/ UdpRecvError
    \/ UdpWorkerStep

\* the UDP worker given at most MaxDatagrams datagrams and receive errors
UdpSpec == UdpInit /\ [][UdpNext]_vars

\* UdpSpec with the worker thread scheduled
FairUdpSpec == UdpSpec /\ WF_vars(UdpWorkerStep)

(***************************************************************************)
(* The serializer applied on its own: a request line is parsed, the        *)
(* response of the handler is put on it and the line is written out.       *)
(***************************************************************************)
\* the longest Multiple response drawn
MaxRespLen == 2

\* the bytes a response carries: 0x00, the terminator, '0', '1'
RenderBytes == {0, PJLINK_TERMINATOR, 48, 49}

\* the byte sequences of at most n bytes over the set bytes
ByteSeqs(n, bytes) == UNION {[1..k -> bytes] : k \in 0..n}

\* every variant of PjLinkResponse
RenderResponses ==
    {Resp(kind, <<>>) : kind \in {"Ok", "Undefined", "OutOfParameter", "UnavailableTime",
                                  "ProjectorOrDisplayFailure", "Empty"}}
    \cup {Resp("Single", <<b>>) : b \in RenderBytes}
    \cup {Resp("Multiple", bs) : bs \in ByteSeqs(MaxRespLen, RenderBytes)}

\* request lines: '%', a body, a separator (' ', '=' or ':') and a parameter
\* (none, "?" or "11")
RenderRequests ==
    {<<PJLINK_HEADER>> \o body \o <<sep>> \o param :
        body \in {Body_1POWR, Body_1CLSS, Body_2INPT},
        sep \in {PJLINK_COMMAND_SEPARATOR, PJLINK_RESPONSE_SEPARATOR, 58},
        param \in {<<>>, <<PJLINK_QUERY>>, <<49, 49>>}}

RenderInit ==
    /\ Start
    /\ ~handler.password.some
    /\ observed = {}
    /\ probe \in [fn : {"render"}, request : RenderRequests, response : RenderResponses]

\* from_buffer, update_with_response and write_to_buffer as handle_connection
\* chains them for one request and the response the handler returned
Render ==
    /\ probe.fn = "render"
    /\ \E raw \in {update_with_response(from_buffer(probe.request), probe.response)} :
          probe' = [fn |-> "rendered", request |-> probe.request,
                    response |-> probe.response, raw_response |-> raw,
                    line |-> write_to_buffer(raw)]
    /\ UNCHANGED <<pc, local, counter, lockHolder, handler, inbound, sent, observed, log,
                   udp, udpLog>>

RenderNext == Render

\* every request line of RenderRequests answered with every response of
\* RenderResponses
RenderSpec == RenderInit /\ [][RenderNext]_vars

(***************************************************************************)
(* The classifier applied on its own to a raw payload.                     *)
(***************************************************************************)
\* the longest transmission parameter drawn
MaxParamLen == 2

\* the bytes of a transmission parameter: '0'..'7', '9', ':', '?', '@', 'A',
\* 'Z', '[', 'b'
ClassifyBytes == (48..55) \cup {57, 58, PJLINK_QUERY, 64, 65, 90, 91, 98}

\* the bodies from_raw_payload has an arm for
RecognizedBodies ==
    { Body_1POWR, Body_1INPT, Body_2INPT, Body_1AVMT, Body_1ERST, Body_1LAMP,
      Body_1INST, Body_2INST, Body_1NAME, Body_1INF1, Body_1INF2, Body_1INFO,
      Body_1CLSS, Body_2SNUM, Body_2SVER, Body_2INNM, Body_2IRES, Body_2RRES,
      Body_2FILT, Body_2RLMP, Body_2RFIL, Body_2SVOL, Body_2MVOL, Body_2FREZ }

\* "2POWR" and "1SVOL" (an opcode of the other class), "1XXXX", and a body
\* that is not UTF-8
OtherBodies ==
    { <<50, 80, 79, 87, 82>>, <<49, 83, 86, 79, 76>>, <<49, 88, 88, 88, 88>>,
      <<49, 200, 79, 87, 82>> }

\* the transmission parameters drawn: every sequence of at most MaxParamLen
\* bytes, alone and after a first byte '?' or '1'
ClassifyParameters ==
    ByteSeqs(MaxParamLen, ClassifyBytes)
    \cup {<<first>> \o rest : first \in {PJLINK_QUERY, 49},
                              rest \in ByteSeqs(MaxParamLen, ClassifyBytes)}

\* the raw payloads the classifier is applied to
ClassifyPayloads ==
    [ command_body_with_class : RecognizedBodies \cup OtherBodies,
      separator : {PJLINK_COMMAND_SEPARATOR, PJLINK_RESPONSE_SEPARATOR},
      transmission_parameter : ClassifyParameters ]

ClassifyInit ==
    /\ Start
    /\ ~handler.password.some
    /\ observed = {}
    /\ probe \in [fn : {"classify"}, raw : ClassifyPayloads]

\* PjLinkCommand::from_raw_payload(&raw_command): it returns a command or the
\* thread panics
Classify ==
    /\ probe.fn = "classify"
    /\ probe' = [fn |-> "classified", raw |-> probe.raw,
                 panicked |-> ClassifyPanics(probe.raw),
                 command |-> IF ClassifyPanics(probe.raw) THEN CmdUnknown
                             ELSE from_raw_payload(probe.raw)]
    /\ UNCHANGED <<pc, local, counter, lockHolder, handler, inbound, sent, observed, log,
                   udp, udpLog>>

ClassifyNext == Classify

\* the classifier applied to every payload of ClassifyPayloads
ClassifySpec == ClassifyInit /\ [][ClassifyNext]_vars

(***************************************************************************)
(* A raw payload written out by the serializer and read back by the line   *)
(* reader and the parser.                                                  *)
(***************************************************************************)
\* the longest transmission parameter sent on the round trip
MaxTripLen == 3

\* read_command on the bytes waiting in the socket: the bytes before the
\* first terminator, or an error when the bytes end without one
read_command(stream) ==
    LET ends == {i \in 1..Len(stream) : stream[i] = PJLINK_TERMINATOR}
    IN  IF ends = {} THEN [ok |-> FALSE, buffer |-> stream]
        ELSE [ok |-> TRUE,
              buffer |-> SubSeq(stream, 1, (CHOOSE i \in ends : \A j \in ends : i <= j) - 1)]

\* write_to_buffer, then read_command and from_buffer on the bytes written:
\* the payload read back, or a failure of the reader or the parser
RoundTrip(raw) ==
    LET read == read_command(write_to_buffer(raw))
    IN  IF ~read.ok \/ FromBufferPanics(read.buffer)
        THEN [ok |-> FALSE, raw |-> NoRaw]
        ELSE [ok |-> TRUE, raw |-> from_buffer(read.buffer)]

\* the payloads sent on the round trip: the body "1POWR", "2INNM" or "1P\rWR",
\* the separator ' ', '=', 0x00 or the terminator, and any parameter of at
\* most MaxTripLen bytes over 0x00, the terminator, '0', '1'
RoundTripPayloads ==
    [ command_body_with_class : {Body_1POWR, Body_2INNM, <<49, 80, 13, 87, 82>>},
      separator : {PJLINK_COMMAND_SEPARATOR, PJLINK_RESPONSE_SEPARATOR, 0,
                   PJLINK_TERMINATOR},
      transmission_parameter : ByteSeqs(MaxTripLen, RenderBytes) ]

RoundTripInit ==
    /\ Start
    /\ ~handler.password.some
    /\ observed = {}
    /\ probe \in [fn : {"round_trip"}, raw : RoundTripPayloads]

\* the payload goes through the serializer and the parser once, and what
\* comes back goes through them again
RoundTripTwice ==
    /\ probe.fn = "round_trip"
    /\ \E once \in {RoundTrip(probe.raw)} :
          probe' = [fn |-> "round_tripped", raw |-> probe.raw, once |-> once,
                    twice |-> IF once.ok THEN RoundTrip(once.raw) ELSE once]
    /\ UNCHANGED <<pc, local, counter, lockHolder, handler, inbound, sent, observed, log,
                   udp, udpLog>>

RoundTripNext == RoundTripTwice

\* every payload of RoundTripPayloads written out and read back twice
RoundTripSpec == RoundTripInit /\ [][RoundTripNext]_vars

(***************************************************************************)
(* A response built from bytes: impl From<Vec<u8>> for PjLinkResponse.     *)
(***************************************************************************)
\* the longest byte sequence a response is built from
MaxFromLen == 4

\* the bytes a response is built from: the letters of "OK" and "ERR", the
\* digits '1'..'4'
FromBytes == {79, 75, 69, 82, 49, 50, 51, 52}

\* Vec<u8>::hash into a DefaultHasher and finish(): the length, then every
\* byte, folded into one number (a stand-in for SipHash, which is not
\* computed here)
RECURSIVE HashBytes(_, _)
HashBytes(h, bytes) ==
    IF bytes = <<>> THEN h
    ELSE HashBytes((h * 37 + Head(bytes) + 1) % 33554432, Tail(bytes))

DefaultHash(bytes) == HashBytes(Len(bytes), bytes)

\* the lazy_static hashes of the five token vectors
PJLINK_RESPONSE_TRANSMISSION_PARAMETER_OK_VEC_HASH ==
    DefaultHash(PJLINK_RESPONSE_TRANSMISSION_PARAMETER_OK)
PJLINK_RESPONSE_TRANSMISSION_PARAMETER_ERR1_VEC_HASH ==
    DefaultHash(PJLINK_RESPONSE_TRANSMISSION_PARAMETER_ERR1)
PJLINK_RESPONSE_TRANSMISSION_PARAMETER_ERR2_VEC_HASH ==
    DefaultHash(PJLINK_RESPONSE_TRANSMISSION_PARAMETER_ERR2)
PJLINK_RESPONSE_TRANSMISSION_PARAMETER_ERR3_VEC_HASH ==
    DefaultHash(PJLINK_RESPONSE_TRANSMISSION_PARAMETER_ERR3)
PJLINK_RESPONSE_TRANSMISSION_PARAMETER_ERR4_VEC_HASH ==
    DefaultHash(PJLINK_RESPONSE_TRANSMISSION_PARAMETER_ERR4)

\* <PjLinkResponse as From<Vec<u8>>>::from: the hash of the bytes is compared
\* with the five token hashes in turn; the size == 1 branch comes after
\* size >= 1 and is never taken
ResponseFrom(from) ==
    LET hash == DefaultHash(from)
    IN  IF hash = PJLINK_RESPONSE_TRANSMISSION_PARAMETER_OK_VEC_HASH
        THEN Resp("Ok", <<>>)
        ELSE IF hash = PJLINK_RESPONSE_TRANSMISSION_PARAMETER_ERR1_VEC_HASH
        THEN Resp("Undefined", <<>>)
        ELSE IF hash = PJLINK_RESPONSE_TRANSMISSION_PARAMETER_ERR2_VEC_HASH
        THEN Resp("OutOfParameter", <<>>)
        ELSE IF hash = PJLINK_RESPONSE_TRANSMISSION_PARAMETER_ERR3_VEC_HASH
        THEN Resp("UnavailableTime", <<>>)
        ELSE IF hash = PJLINK_RESPONSE_TRANSMISSION_PARAMETER_ERR4_VEC_HASH
        THEN Resp("ProjectorOrDisplayFailure", <<>>)
        ELSE IF Len(from) >= 1 THEN Resp("Multiple", from)
        ELSE IF Len(from) = 1 THEN Resp("Single", <<from[1]>>)
        ELSE Resp("Empty", <<>>)

FromInit ==
    /\ Start
    /\ ~handler.password.some
    /\ observed = {}
    /\ probe \in [fn : {"from"}, bytes : ByteSeqs(MaxFromLen, FromBytes)]

\* a response is built from the bytes and given to update_with_response
FromVec ==
    /\ probe.fn = "from"
    /\ \E response \in {ResponseFrom(probe.bytes)} :
          probe' = [fn |-> "built", bytes |-> probe.bytes, response |-> response,
                    parameter |-> ResponseParameter(response)]
    /\ UNCHANGED <<pc, local, counter, lockHolder, handler, inbound, sent, observed, log,
                   udp, udpLog>>

FromNext == FromVec

\* a response built from every sequence of at most MaxFromLen bytes of
\* FromBytes
FromSpec == FromInit /\ [][FromNext]_vars

(***************************************************************************)
(* The mock projector called with 1AVMT requests, one after the other.     *)
(***************************************************************************)
\* the number of requests the mock projector is given
MaxMuteCalls == 3

\* the parameters of the requests: "11" "10" "21" "20" "31" "30", the query
\* "?", and "41", which names no channel
MuteParameters ==
    {<<target, flag>> : target \in {49, 50, 51}, flag \in {48, 49}}
    \cup {<<PJLINK_QUERY>>, <<52, 49>>}

\* the payload from_buffer makes of "%1AVMT " followed by the parameter
MuteRequest(tp) ==
    [ command_body_with_class |-> Body_1AVMT,
      separator |-> PJLINK_COMMAND_SEPARATOR,
      transmission_parameter |-> tp ]

\* the request "%1AVMT <tp>" is classified and handled by the mock projector
MockMuteCall(tp) ==
    /\ Len(handler.handled) < MaxMuteCalls
    /\ \E command \in {from_raw_payload(MuteRequest(tp))} :
          \E h \in {handle_command(handler.state, command)} :
              handler' = [handler EXCEPT
                  !.state = h.state,
                  !.handled = Append(@, HandledCall(0, command, h.response))]
    /\ UNCHANGED <<pc, local, counter, lockHolder, inbound, sent, observed, log, probe,
                   udp, udpLog>>

MuteInit == Start /\ ~handler.password.some /\ observed = {} /\ probe = NoProbe

MuteNext == \E tp \in MuteParameters : MockMuteCall(tp)

\* every sequence of at most MaxMuteCalls 1AVMT requests handled by a mock
\* projector in its initial state
MuteSpec == MuteInit /\ [][MuteNext]_vars

(***************************************************************************)
(* Reading the history of a connection.                                    *)
(***************************************************************************)
\* the positions of the events of kind ev in the history of connection c
Indices(c, ev) == {k \in 1..Len(log[c]) : log[c][k].ev = ev}

\* the events that hand a buffer to the socket
IsWrite(e) == e.ev \in {"prologue", "erra", "response"}

\* the buffers handed to the socket, in order
RECURSIVE WriteBuffers(_)
WriteBuffers(l) ==
    IF l = <<>> THEN <<>>
    ELSE (IF IsWrite(Head(l)) THEN <<Head(l).bytes>> ELSE <<>>) \o WriteBuffers(Tail(l))

\* the socket took the whole buffer of the write event e
FullyWritten(e) == e.arg = Len(e.bytes)

\* the first 32 bytes of line are the lowercase-hex digest of salt ++ password
\* of session c
CarriesHash(c, line) ==
    /\ Len(line) >= 32
    /\ SubSeq(line, 1, 32) = ExpectedHash(local[c].password_salt.val, local[c].password.val)

\* get_password returned a password in session c
Protected(c) == local[c].password.some

\* the first line session c has read
FirstLine(c) == log[c][CHOOSE k \in Indices(c, "read") : \A j \in Indices(c, "read") : k <= j].bytes

\* "PJLINK 0\r", or "PJLINK 1 " ++ salt ++ "\r" when session c has a password
ExpectedPrologue(c) ==
    IF Protected(c)
    THEN <<80, 74, 76, 73, 78, 75, 32, 49, 32>> \o local[c].password_salt.val \o <<13>>
    ELSE <<80, 74, 76, 73, 78, 75, 32, 48, 13>>

\* "PJLINK ERRA\r"
ErraLine == <<80, 74, 76, 73, 78, 75, 32, 69, 82, 82, 65, 13>>

\* 8 characters of 0-9 A-F
IsSaltText(s) == Len(s) = 8 /\ \A i \in 1..8 : s[i] \in (48..57) \cup (65..70)

(***************************************************************************)
(* C1                                                                      *)
(***************************************************************************)
\* C1: in a session whose get_password returned a password, every call of
\* handle_command comes after the session has read a line whose first 32
\* bytes are the lowercase-hex MD5 of salt ++ password, whatever lines the
\* client sends
C1_NoCommandBeforeHash ==
    \A c \in observed :
        Protected(c) =>
            \A k \in Indices(c, "handle_command") :
                \E i \in 1..(k - 1) :
                    log[c][i].ev = "read" /\ CarriesHash(c, log[c][i].bytes)

\* a protected session has dispatched a request
C1_Witness ==
    \E c \in observed :
        /\ Protected(c)
        /\ Indices(c, "handle_command") # {}

WrongHashFirst(c) ==
    /\ Protected(c)
    /\ Indices(c, "read") # {}
    /\ Len(FirstLine(c)) >= 32
    /\ ~CarriesHash(c, FirstLine(c))

\* C3: when the first line of a protected session carries a wrong hash, the
\* server hands the socket "PJLINK ERRA\r" and nothing else after the
\* prologue, the worker ends, no further line is read and handle_command is
\* never called
C3_WrongHashClosesWithErra ==
    \A c \in observed :
        WrongHashFirst(c) =>
            /\ pc[c] \in {"erra_write", "closed"}
            /\ Indices(c, "handle_command") = {}
            /\ Cardinality(Indices(c, "read")) = 1
            /\ WriteBuffers(log[c]) =
                  IF pc[c] = "closed" THEN <<ExpectedPrologue(c), ErraLine>>
                  ELSE <<ExpectedPrologue(c)>>

\* the first line was 32 bytes of '0' followed by a request, the error line
\* went out in full and the session is closed
C3_Witness ==
    \E c \in observed :
        /\ WrongHashFirst(c)
        /\ FirstLine(c) = ZeroHash \o RequestPowerQuery
        /\ pc[c] = "closed"
        /\ \E k \in Indices(c, "erra") : FullyWritten(log[c][k])

(***************************************************************************)
(* C4                                                                      *)
(***************************************************************************)
\* C4: in a protected session a first line shorter than 32 bytes is
\* rejected, and a first line of 32 bytes or more (exactly 32 included)
\* whose first 32 bytes are the expected hash authenticates the session: no
\* "PJLINK ERRA" is written for it
C4_LengthRejectsOnlyShort ==
    \A c \in observed :
        (Protected(c) /\ Indices(c, "read") # {}) =>
            /\ Len(FirstLine(c)) < 32 =>
                  ~local[c].has_authenticated /\ pc[c] \in {"erra_write", "closed"}
            /\ CarriesHash(c, FirstLine(c)) =>
                  /\ local[c].has_authenticated
                  /\ pc[c] # "erra_write"
                  /\ Indices(c, "erra") = {}

\* the first line of a protected session was exactly the 32 bytes of the
\* expected hash and the worker is about to write the error line
C4_Witness ==
    \E c \in observed :
        /\ Protected(c)
        /\ Indices(c, "read") # {}
        /\ Len(FirstLine(c)) = 32
        /\ CarriesHash(c, FirstLine(c))
        /\ pc[c] = "erra_write"

(***************************************************************************)
(* C5                                                                      *)
(***************************************************************************)
\* a line that passes the framing checks: '%' and at least 5 + 1 bytes after
\* it (the parameter may be empty)
WellFormed(line) == Len(line) >= 7 /\ line[1] = 37

\* the line without its first 32 bytes
AfterHash(line) == SubSeq(line, 33, Len(line))

\* the position of the first line read in session c
FirstRead(c) == CHOOSE k \in Indices(c, "read") : \A j \in Indices(c, "read") : k <= j

\* the body, separator and parameter of the request line
Parsed(line) ==
    [ command_body_with_class |-> SubSeq(line, 2, 6),
      separator |-> line[7],
      transmission_parameter |-> SubSeq(line, 8, Len(line)) ]

\* the first line of protected session c is the expected hash followed by a
\* line that passes the framing checks
HashThenRequest(c) ==
    /\ Protected(c)
    /\ Indices(c, "read") # {}
    /\ CarriesHash(c, FirstLine(c))
    /\ WellFormed(AfterHash(FirstLine(c)))

\* C5: when the first line of a protected session is the expected hash
\* followed by a well-formed request, the session is authenticated, the next
\* thing the worker does is call handle_command with the payload and the
\* command of that request, then it hands the socket the response line of
\* that request, and when the socket takes it the worker waits for the next
\* line
C5_HashThenRequestServed ==
    \A c \in observed :
        HashThenRequest(c) =>
            LET k == FirstRead(c)
                l == log[c]
                request == AfterHash(FirstLine(c))
            IN  /\ local[c].has_authenticated
                /\ Indices(c, "erra") = {}
                /\ Len(l) = k => pc[c] = "cmd_lock"
                /\ Len(l) > k =>
                      /\ l[k + 1].ev = "handle_command"
                      /\ l[k + 1].arg.raw = Parsed(request)
                      /\ l[k + 1].arg.command = from_raw_payload(Parsed(request))
                /\ Len(l) = k + 1 => pc[c] \in {"handle_command", "resp_write"}
                /\ Len(l) > k + 1 =>
                      /\ l[k + 2].ev = "response"
                      /\ SubSeq(l[k + 2].bytes, 1, 7) =
                            <<37>> \o SubSeq(request, 2, 6) \o <<61>>
                /\ (Len(l) = k + 2 /\ l[k + 2].arg >= 0) => pc[c] = "read"
                /\ (Len(l) > k + 2 /\ l[k + 2].arg >= 0) => l[k + 3].ev \in {"read", "eof"}

\* the first line was the expected hash followed by "%1POWR " and the
\* worker thread has died without a call of handle_command
C5_Witness ==
    \E c \in observed :
        /\ HashThenRequest(c)
        /\ AfterHash(FirstLine(c)) = RequestPowerEmpty
        /\ pc[c] = "panicked"
        /\ Indices(c, "handle_command") = {}

(***************************************************************************)
(* C6                                                                      *)
(***************************************************************************)
\* the workers inside a call of the shared handler
InHandlerCall == {c \in Conn : pc[c] \in {"get_password", "handle_command"}}

\* C6: at most one call of the shared handler (get_password or
\* handle_command) is in progress at any time, whatever the interleaving of
\* the workers
C6_OneHandlerCallAtATime == Cardinality(InHandlerCall) <= 1

\* a handler call is in progress while another worker waits for the Mutex
C6_Witness ==
    \E c, d \in Conn :
        /\ c # d
        /\ c \in InHandlerCall
        /\ pc[d] \in {"greet_lock", "cmd_lock"}

(***************************************************************************)
(* C7                                                                      *)
(***************************************************************************)
\* the worker of c is in a socket operation: the write of the prologue, the
\* read of a line, the write of the error line, the write of a response
InSocketIO(c) == pc[c] \in {"greet_write", "read", "erra_write", "resp_write"}

\* C7: a worker that is performing a socket read, write or flush (the
\* prologue write included) does not hold the handler lock
C7_NoLockDuringSocketIO == \A c \in Conn : InSocketIO(c) => lockHolder # c

\* a worker writes a response while it holds the Mutex and another worker
\* waits for the Mutex
C7_Witness ==
    \E c, d \in Conn :
        /\ c # d
        /\ pc[c] = "resp_write"
        /\ lockHolder = c
        /\ pc[d] \in {"greet_lock", "cmd_lock"}

(***************************************************************************)
(* C8                                                                      *)
(***************************************************************************)
\* C8: a worker waiting in a read never holds the handler lock, so with the
\* workers scheduled fairly every request another connection's worker has
\* read and classified is dispatched to the handler and its response is
\* handed to the socket, however long a silent peer keeps its worker waiting
C8_SilentPeerBlocksOnlyItself ==
    /\ [](\A d \in Conn : pc[d] = "read" => lockHolder # d)
    /\ \A c \in Conn :
          /\ (pc[c] = "cmd_lock") ~> (pc[c] = "handle_command")
          /\ (pc[c] = "handle_command") ~> (pc[c] = "resp_write")
          /\ (pc[c] = "resp_write") ~> (pc[c] \in {"read", "closed"})

\* the request of one connection is with the handler while the worker of
\* another waits for its silent peer
C8_Witness ==
    \E c, d \in Conn :
        /\ c # d
        /\ pc[d] = "read"
        /\ inbound[d] = <<>>
        /\ pc[c] = "handle_command"

(***************************************************************************)
(* C9                                                                      *)
(***************************************************************************)
\* the lines read, in the order of their reading
RECURSIVE ReadLines(_)
ReadLines(l) ==
    IF l = <<>> THEN <<>>
    ELSE (IF Head(l).ev = "read" THEN <<Head(l).bytes>> ELSE <<>>) \o ReadLines(Tail(l))

\* the bytes of the payload raw are the end of line
EndsWithPayload(line, raw) ==
    LET x == raw.command_body_with_class \o <<raw.separator>> \o raw.transmission_parameter
    IN  Len(x) <= Len(line) /\ SubSeq(line, Len(line) - Len(x) + 1, Len(line)) = x

\* C9: on a connection the lines are read in the order the peer sent them;
\* every call of handle_command is for the line read just before it; every
\* response is for the call made just before it and carries its command
\* body; and a line is read only when the response to the request before it
\* has been handed to the socket
C9_RequestsInOrder ==
    \A c \in observed :
        LET l == log[c]
        IN  /\ l # <<>> => (l[1].ev = "accept" /\ IsPrefix(ReadLines(l), l[1].arg))
            /\ \A k \in Indices(c, "handle_command") :
                  /\ l[k - 1].ev = "read"
                  /\ EndsWithPayload(l[k - 1].bytes, l[k].arg.raw)
                  /\ k < Len(l) =>
                        /\ l[k + 1].ev = "response"
                        /\ SubSeq(l[k + 1].bytes, 2, 6) = l[k].arg.raw.command_body_with_class
            /\ \A k \in Indices(c, "response") : l[k - 1].ev = "handle_command"
            /\ \A k \in Indices(c, "read") : l[k - 1].ev \in {"prologue", "response"}

\* two different lines were served one after the other on one connection
C9_Witness ==
    \E c \in observed :
        /\ Cardinality(Indices(c, "response")) = 2
        /\ Len(ReadLines(log[c])) = 2
        /\ ReadLines(log[c])[1] # ReadLines(log[c])[2]

(***************************************************************************)
(* C10                                                                     *)
(***************************************************************************)
\* the line read at position k of the history of c is a well-formed request
\* received in a session without password or after a line that carried the
\* hash
RequestInReady(c, k) ==
    /\ WellFormed(log[c][k].bytes)
    /\ \/ ~Protected(c)
       \/ \E i \in 1..(k - 1) : log[c][i].ev = "read" /\ CarriesHash(c, log[c][i].bytes)

\* C10: in every session get_password is called once, before any call of
\* handle_command; every well-formed request line received after
\* authentication (or after the nullified prologue) is followed by one call
\* of handle_command, and every call by one response line
C10_CallsPerSession ==
    \A c \in observed :
        LET l == log[c]
        IN  /\ Cardinality(Indices(c, "get_password")) <= 1
            /\ pc[c] \notin {"idle", "start", "greet_lock"} => Indices(c, "get_password") # {}
            /\ \A k \in Indices(c, "handle_command") :
                  /\ \E i \in 1..(k - 1) : l[i].ev = "get_password"
                  /\ l[k - 1].ev = "read"
                  /\ k = Len(l) => pc[c] \in {"handle_command", "resp_write"}
                  /\ k < Len(l) => l[k + 1].ev = "response"
            /\ \A k \in Indices(c, "response") : l[k - 1].ev = "handle_command"
            /\ \A k \in Indices(c, "read") :
                  RequestInReady(c, k) =>
                      /\ k = Len(l) => pc[c] = "cmd_lock"
                      /\ k < Len(l) => l[k + 1].ev = "handle_command"

\* a session without password read "%1POWR " and the worker thread has died
\* without a call of handle_command for it
C10_Witness ==
    \E c \in observed :
        /\ ~Protected(c)
        /\ Indices(c, "read") # {}
        /\ FirstLine(c) = RequestPowerEmpty
        /\ pc[c] = "panicked"
        /\ Indices(c, "handle_command") = {}

\* ---------------------------------------------------------------------
\* Connection ids

\* the sessions that have done their fetch_add
HasId(c) == local[c].connection_id >= 0

AssignedIds == {local[c].connection_id : c \in {d \in Conn : HasId(d)}}

\* the ids are pairwise distinct, below the counter, and there are as many of
\* them as the counter has been advanced: one fetch_add per session
IdsUnique ==
    /\ \A c, d \in Conn : HasId(c) /\ HasId(d) /\ c # d
            => local[c].connection_id # local[d].connection_id
    /\ \A c \in Conn : HasId(c) => local[c].connection_id < counter
    /\ counter = Cardinality({c \in Conn : HasId(c)})

\* a step that gives a session its id gives it one strictly larger than
\* every id handed out before, and gives it to a session that had none
IdsIncrease ==
    \A c \in Conn : local'[c].connection_id # local[c].connection_id
        => /\ ~HasId(c)
           /\ \A n \in AssignedIds : local'[c].connection_id > n

\* C11: the counter starts at 0, every session does one fetch_add on it, the
\* ids handed out are pairwise distinct, and a later fetch_add obtains a
\* strictly larger id than every earlier one
C11_IdsUniqueIncreasing ==
    /\ counter = 0
    /\ []IdsUnique
    /\ [][IdsIncrease]_vars

\* both sessions hold an id, and the one accepted on the second socket did its
\* fetch_add first
C11_Witness ==
    /\ \A c \in Conn : HasId(c)
    /\ local[2].connection_id = 0
    /\ local[1].connection_id = 1

\* C12: the handler is passed the same connection id in get_password and in
\* every handle_command of one session, the id the session obtained at its
\* start, and a different id in the calls of any other session
C12_IdStablePerSession ==
    /\ \A a, b \in handler.calls :
          (a.session = b.session) <=> (a.connection_id = b.connection_id)
    /\ \A a \in handler.calls :
          HasId(a.session) /\ a.connection_id = local[a.session].connection_id

\* the handler has been called with get_password and handle_command from one
\* session and with handle_command from the other
C12_Witness ==
    /\ \E id \in 0..(NumConn - 1) :
          {Call(1, "get_password", id), Call(1, "handle_command", id)}
              \subseteq handler.calls
    /\ \E a \in handler.calls : a.session = 2 /\ a.fn = "handle_command"

\* ---------------------------------------------------------------------
\* Failure isolation

\* worker c is in an open session and does not wait for its peer
Serving(c) ==
    /\ pc[c] \notin {"idle", "closed", "panicked"}
    /\ ~(pc[c] = "read" /\ inbound[c] = <<>>)

\* worker c waits for a Mutex that a running worker holds
WaitsForRunning(c) ==
    /\ pc[c] \in {"greet_lock", "cmd_lock"}
    /\ lockHolder \in Conn
    /\ ~Ended(lockHolder)

\* the step ends the worker of connection c
Ends(c) == ~Ended(c) /\ Ended(c)'

\* a step that ends one worker leaves every other session as it was
OthersUntouched ==
    \A c \in Conn : Ends(c) =>
        /\ \A d \in Conn \ {c} :
              /\ pc'[d] = pc[d]
              /\ local'[d] = local[d]
              /\ inbound'[d] = inbound[d]
        /\ handler' = handler
        /\ counter' = counter

\* an ended worker holds nothing the others need: it does not hold the
\* Mutex, every other worker that is not waiting for its peer or for a
\* running lock holder can take its next step, and the acceptor accepts the
\* next connection
OthersServed ==
    \A c \in Conn : Ended(c) =>
        /\ lockHolder # c
        /\ \A d \in Conn \ {c} :
              Serving(d) /\ ~WaitsForRunning(d) => ENABLED WorkerStep(d)
        /\ \A d \in Conn \ {c} :
              pc[d] = "idle" /\ (\A e \in Conn : e < d => pc[e] # "idle")
                  => ENABLED Accept(d, <<>>)

\* C13: a read error or peer close, a write error, a malformed line or an
\* authentication failure ends only the worker of its connection: the step
\* changes nothing of any other session, the other workers go on being served
\* and the acceptor goes on accepting
C13_ErrorEndsOnlyItsWorker ==
    /\ []OthersServed
    /\ [][OthersUntouched]_vars

\* the worker of one connection has panicked on a malformed line while the
\* other waits to take the Mutex for a request
C13_Witness ==
    /\ pc[1] = "panicked"
    /\ pc[2] = "cmd_lock"
    /\ lockHolder = 0

\* ---------------------------------------------------------------------
\* Framing

\* the line does not start with '%' or is shorter than header, body and
\* separator
FailsFraming(line) == Len(line) < 7 \/ line[1] # PJLINK_HEADER

\* C14: in a session without password, where the whole line is the request,
\* a line that is shorter than 7 bytes or does not start with '%' ends the
\* session: it is the last event of the connection, so handle_command is not
\* called for it and no response is written for it
C14_FramingErrorCloses ==
    ~Protected(1) =>
        \A k \in Indices(1, "read") :
            FailsFraming(log[1][k].bytes) => k = Len(log[1]) /\ Ended(1)

\* "X1CLSS ?" was read in a session without password, handle_command was
\* called for it and the response "%1CLSS=OK" was handed to the socket
C14_Witness ==
    /\ ~Protected(1)
    /\ \E k \in Indices(1, "read") :
          /\ log[1][k].bytes = BadHeaderLine
          /\ k + 2 <= Len(log[1])
          /\ log[1][k + 1].ev = "handle_command"
          /\ log[1][k + 2].ev = "response"
          /\ log[1][k + 2].bytes = <<37, 49, 67, 76, 83, 83, 61, 79, 75, 13>>

\* ---------------------------------------------------------------------
\* Response lines

\* the serializer has produced a line
Rendered == probe.fn = "rendered"

\* C15: the response line carries the 5-byte body of the request it answers
\* and the separator '=', whatever separator the request used and whatever
\* response the handler returned
C15_ResponseKeepsBody ==
    Rendered =>
        /\ Len(probe.line) >= 8
        /\ probe.line[1] = PJLINK_HEADER
        /\ SubSeq(probe.line, 2, 6) = SubSeq(probe.request, 2, 6)
        /\ probe.line[7] = 61

\* the request "%2INPT:11" answered with a Multiple response of two bytes
C15_Witness ==
    /\ Rendered
    /\ probe.request = <<37, 50, 73, 78, 80, 84, 58, 49, 49>>
    /\ probe.response = Resp("Multiple", <<49, 48>>)
    /\ probe.line = <<37, 50, 73, 78, 80, 84, 61, 49, 48, 13>>

\* C16: every response line ends with exactly one terminator byte, whatever
\* the response: its last byte is 0x0D and the byte before it is not
C16_OneTerminator ==
    Rendered =>
        /\ probe.line[Len(probe.line)] = PJLINK_TERMINATOR
        /\ probe.line[Len(probe.line) - 1] # PJLINK_TERMINATOR

\* the handler returned Single(0x0D) and the line ends with two terminators
C16_Witness ==
    /\ Rendered
    /\ probe.response = Resp("Single", <<13>>)
    /\ probe.request = <<37, 49, 80, 79, 87, 82, 32, 63>>
    /\ probe.line = <<37, 49, 80, 79, 87, 82, 61, 13, 13>>

\* the parameter token the response table gives a named response
ExpectedToken(kind) ==
    CASE kind = "Ok" -> <<79, 75>>
      [] kind = "Undefined" -> <<69, 82, 82, 49>>
      [] kind = "OutOfParameter" -> <<69, 82, 82, 50>>
      [] kind = "UnavailableTime" -> <<69, 82, 82, 51>>
      [] kind = "ProjectorOrDisplayFailure" -> <<69, 82, 82, 52>>

\* C17: Ok renders as "OK", Undefined as "ERR1", OutOfParameter as "ERR2",
\* UnavailableTime as "ERR3", ProjectorOrDisplayFailure as "ERR4", Single(b)
\* as the byte b, Multiple(bs) as bs and Empty as no byte
C17_ResponseTokens ==
    Rendered =>
        probe.raw_response.transmission_parameter =
            IF probe.response.kind \in {"Single", "Multiple"} THEN probe.response.bytes
            ELSE IF probe.response.kind = "Empty" THEN <<>>
            ELSE ExpectedToken(probe.response.kind)

\* ProjectorOrDisplayFailure was rendered as "ERR3", the token of
\* UnavailableTime
C17_Witness ==
    /\ Rendered
    /\ probe.response = Resp("ProjectorOrDisplayFailure", <<>>)
    /\ probe.raw_response.transmission_parameter = <<69, 82, 82, 51>>
    /\ probe.line = <<37, 49, 67, 76, 83, 83, 61, 69, 82, 82, 51, 13>>

\* ---------------------------------------------------------------------
\* Classifier

\* the classifier has been applied to probe.raw
Classified == probe.fn = "classified"

\* C18: from_raw_payload returns a command for every raw payload, the empty
\* parameter included, and Command::Unknown for every body it does not
\* recognize
C18_ClassifierTotal ==
    Classified =>
        /\ ~probe.panicked
        /\ probe.raw.command_body_with_class \notin RecognizedBodies
              => probe.command = CmdUnknown

\* the classifier was applied to the body "1POWR" with an empty parameter and
\* panicked
C18_Witness ==
    /\ Classified
    /\ probe.raw.command_body_with_class = Body_1POWR
    /\ probe.raw.transmission_parameter = <<>>
    /\ probe.panicked

\* C19: for the body "1POWR" the parameter "?" gives Power1(Query), "1" gives
\* Power1(On), "0" gives Power1(Off) and every other parameter gives
\* Power1(Unknown)
C19_PowerParameter ==
    Classified /\ probe.raw.command_body_with_class = Body_1POWR =>
        /\ ~probe.panicked
        /\ probe.command =
              Cmd("Power1",
                  CASE probe.raw.transmission_parameter = <<63>> -> "Query"
                    [] probe.raw.transmission_parameter = <<49>> -> "On"
                    [] probe.raw.transmission_parameter = <<48>> -> "Off"
                    [] OTHER -> "Unknown",
                  -1)

\* the parameter "10" of "1POWR" was classified as Power1(On)
C19_Witness ==
    /\ Classified
    /\ probe.raw.command_body_with_class = Body_1POWR
    /\ probe.raw.transmission_parameter = <<49, 48>>
    /\ ~probe.panicked
    /\ probe.command = Cmd("Power1", "On", -1)

\* the input kind a digit '1'..'6' names
InputKind(kind) ==
    CASE kind = 49 -> "RGB"
      [] kind = 50 -> "Video"
      [] kind = 51 -> "Digital"
      [] kind = 52 -> "Storage"
      [] kind = 53 -> "Network"
      [] kind = 54 -> "Internal"

\* the parameter of an input command for the two bytes (kind, value): the
\* kind carrying value when kind is '1'..'6', value is '1'..'9' or, in class
\* 2, 'A'..'Z', and the kind is not Internal in class 1; Unknown otherwise
ExpectedInput(is_class_2, kind, value) ==
    IF /\ kind \in 49..54
       /\ value \in 49..57 \/ (is_class_2 /\ value \in 65..90)
       /\ ~(kind = 54 /\ ~is_class_2)
    THEN <<InputKind(kind), value>>
    ELSE <<"Unknown", -1>>

\* C20: for "1INPT" and "2INPT" a two-byte parameter (kind, value) gives the
\* kind variant carrying value when the value is legal for the class and the
\* kind is not Internal in class 1, and Unknown otherwise; "?" gives Query;
\* the result is Input1 or Input2 by the class digit
C20_InputParameter ==
    Classified /\ probe.raw.command_body_with_class \in {Body_1INPT, Body_2INPT} =>
        LET tp == probe.raw.transmission_parameter
            is_class_2 == probe.raw.command_body_with_class = Body_2INPT
            tag == IF is_class_2 THEN "Input2" ELSE "Input1"
        IN  /\ ~probe.panicked
            /\ probe.command.tag = tag
            /\ tp = <<63>> => probe.command = Cmd(tag, "Query", -1)
            /\ Len(tp) = 2 =>
                  probe.command = Cmd(tag, ExpectedInput(is_class_2, tp[1], tp[2])[1],
                                      ExpectedInput(is_class_2, tp[1], tp[2])[2])

\* "2INPT" with the parameter "6A" was classified as Input2(Internal('A'))
C20_Witness ==
    /\ Classified
    /\ probe.raw.command_body_with_class = Body_2INPT
    /\ probe.raw.transmission_parameter = <<54, 65>>
    /\ probe.command = Cmd("Input2", "Internal", 65)

\* the classifier has been applied to a payload with the body b
ClassifiedBody(b) == Classified /\ probe.raw.command_body_with_class = b

\* C21: for "1AVMT" the parameter "?" gives AvMute1(Query); two bytes
\* (target, flag) with target '1', '2' or '3' and flag '0' or '1' give Video,
\* Audio or AudioAndVideo with the flag true exactly for '1'; every other
\* parameter gives AvMute1(Unknown)
C21_AvMuteParameter ==
    ClassifiedBody(Body_1AVMT) =>
        LET tp == probe.raw.transmission_parameter
        IN  /\ ~probe.panicked
            /\ probe.command =
                  IF tp = <<63>> THEN Cmd("AvMute1", "Query", -1)
                  ELSE IF Len(tp) = 2 /\ tp[1] \in 49..51 /\ tp[2] \in 48..49
                  THEN Cmd("AvMute1",
                           <<"Video", "Audio", "AudioAndVideo">>[tp[1] - 48],
                           tp[2] - 48)
                  ELSE Cmd("AvMute1", "Unknown", -1)

\* "1AVMT" with the parameter "31" was classified as
\* AvMute1(AudioAndVideo(true))
C21_Witness ==
    /\ ClassifiedBody(Body_1AVMT)
    /\ probe.raw.transmission_parameter = <<51, 49>>
    /\ probe.command = Cmd("AvMute1", "AudioAndVideo", 1)

\* the variant the classifier has for the bodies "2SVOL", "2MVOL", "2FREZ"
AdjustVariant(b) ==
    CASE b = Body_2SVOL -> "SpeakerVolumeAdjustment2"
      [] b = Body_2MVOL -> "MicrophoneVolumeAdjustment2"
      [] b = Body_2FREZ -> "Freeze2"

\* C22: for "2SVOL", "2MVOL" and "2FREZ" the classifier always returns the
\* variant of the body: "1" gives Increase / Freeze, "0" gives Decrease /
\* Unfreeze, "?" gives Query for "2FREZ", and every other parameter, the
\* empty and the multi-byte ones included, gives the Unknown sub-parameter
\* of that variant
C22_AdjustParameter ==
    Classified /\ probe.raw.command_body_with_class \in {Body_2SVOL, Body_2MVOL, Body_2FREZ} =>
        LET tp == probe.raw.transmission_parameter
            b == probe.raw.command_body_with_class
        IN  /\ ~probe.panicked
            /\ probe.command.tag = AdjustVariant(b)
            /\ probe.command.param =
                  IF b = Body_2FREZ
                  THEN CASE tp = <<49>> -> "Freeze"
                         [] tp = <<48>> -> "Unfreeze"
                         [] tp = <<63>> -> "Query"
                         [] OTHER -> "Unknown"
                  ELSE CASE tp = <<49>> -> "Increase"
                         [] tp = <<48>> -> "Decrase"
                         [] OTHER -> "Unknown"

\* "2SVOL" with an empty parameter was classified as Command::Unknown
C22_Witness ==
    /\ ClassifiedBody(Body_2SVOL)
    /\ probe.raw.transmission_parameter = <<>>
    /\ probe.command = CmdUnknown

\* C23: for "2INNM" the three bytes '?', kind, value with kind '1'..'6' and
\* value '1'..'9' or 'A'..'Z' give InputTerminalName2 of the kind carrying
\* value; every other parameter gives InputTerminalName2(Unknown)
C23_InputNameParameter ==
    ClassifiedBody(Body_2INNM) =>
        LET tp == probe.raw.transmission_parameter
        IN  /\ ~probe.panicked
            /\ probe.command =
                  IF /\ Len(tp) = 3
                     /\ tp[1] = 63
                     /\ tp[2] \in 49..54
                     /\ tp[3] \in (49..57) \cup (65..90)
                  THEN Cmd("InputTerminalName2", InputKind(tp[2]), tp[3])
                  ELSE Cmd("InputTerminalName2", "Unknown", -1)

\* "2INNM" with the parameter "?6Z" was classified as
\* InputTerminalName2(Internal('Z'))
C23_Witness ==
    /\ ClassifiedBody(Body_2INNM)
    /\ probe.raw.transmission_parameter = <<63, 54, 90>>
    /\ probe.command = Cmd("InputTerminalName2", "Internal", 90)

\* ---------------------------------------------------------------------
\* Round trip

RoundTripped == probe.fn = "round_tripped"

\* the terminator is not among the bytes of s
NoTerminator(s) == \A i \in 1..Len(s) : s[i] # PJLINK_TERMINATOR

\* s without its last byte when that byte is 0x00
DropZeroTail(s) ==
    IF s # <<>> /\ s[Len(s)] = 0 THEN SubSeq(s, 1, Len(s) - 1) ELSE s

\* the payload holds no terminator and its separator is not 0x00
Framed(raw) ==
    /\ NoTerminator(raw.command_body_with_class)
    /\ raw.separator \notin {0, PJLINK_TERMINATOR}
    /\ NoTerminator(raw.transmission_parameter)

\* C24: a payload whose parameter holds no terminator (and whose body and
\* separator are ordinary bytes) comes back from the serializer, the line
\* reader and the parser with the same body, the same separator and the same
\* parameter, less a trailing 0x00 byte; sent through them a second time it
\* comes back unchanged
C24_RoundTrip ==
    RoundTripped /\ Framed(probe.raw) =>
        /\ probe.once.ok
        /\ probe.once.raw =
              [probe.raw EXCEPT !.transmission_parameter = DropZeroTail(@)]
        /\ probe.twice = probe.once

\* C24 as amended: a payload without terminator byte whose separator is not
\* 0x00 comes back from every round trip with the same body and separator
\* and with its parameter less one trailing 0x00 byte; so the second round
\* trip changes nothing exactly when the parameter that came back from the
\* first does not end in 0x00
C24_RoundTripDropsOneZero ==
    RoundTripped /\ Framed(probe.raw) =>
        /\ probe.once.ok
        /\ probe.once.raw =
              [probe.raw EXCEPT !.transmission_parameter = DropZeroTail(@)]
        /\ probe.twice.ok
        /\ probe.twice.raw =
              [probe.once.raw EXCEPT !.transmission_parameter = DropZeroTail(@)]

\* the parameter "0" 0x00 0x00 came back as "0" 0x00 from the first round
\* trip and as "0" from the second
C24_Witness ==
    /\ RoundTripped
    /\ probe.raw.transmission_parameter = <<48, 0, 0>>
    /\ probe.once.ok /\ probe.once.raw.transmission_parameter = <<48, 0>>
    /\ probe.twice.ok /\ probe.twice.raw.transmission_parameter = <<48>>

\* ---------------------------------------------------------------------
\* Responses built from bytes

Built == probe.fn = "built"

\* the named response the bytes of a token stand for
TokenResponse(bytes) ==
    CASE bytes = <<79, 75>> -> Resp("Ok", <<>>)
      [] bytes = <<69, 82, 82, 49>> -> Resp("Undefined", <<>>)
      [] bytes = <<69, 82, 82, 50>> -> Resp("OutOfParameter", <<>>)
      [] bytes = <<69, 82, 82, 51>> -> Resp("UnavailableTime", <<>>)
      [] bytes = <<69, 82, 82, 52>> -> Resp("ProjectorOrDisplayFailure", <<>>)

Tokens ==
    { <<79, 75>>, <<69, 82, 82, 49>>, <<69, 82, 82, 50>>, <<69, 82, 82, 51>>,
      <<69, 82, 82, 52>> }

\* C25: the bytes "OK", "ERR1", "ERR2", "ERR3", "ERR4" build Ok, Undefined,
\* OutOfParameter, UnavailableTime, ProjectorOrDisplayFailure, and the
\* response built from any bytes renders to the parameter bytes Multiple of
\* those bytes renders to
C25_FromBytesCollapses ==
    Built =>
        /\ probe.bytes \in Tokens => probe.response = TokenResponse(probe.bytes)
        /\ probe.parameter = ResponseParameter(Resp("Multiple", probe.bytes))

\* the bytes "ERR4" built Multiple("ERR4")
C25_Witness ==
    /\ Built
    /\ probe.bytes = <<69, 82, 82, 52>>
    /\ probe.response = Resp("Multiple", <<69, 82, 82, 52>>)

\* ---------------------------------------------------------------------
\* UDP discovery

\* the logical message of a datagram: its bytes up to and including the
\* first terminator, nothing when it has no terminator
LogicalMessage(datagram) ==
    LET ends == {i \in 1..Len(datagram) : datagram[i] = 13}
    IN  IF ends = {} THEN <<>>
        ELSE SubSeq(datagram, 1, CHOOSE i \in ends : \A j \in ends : i <= j)

\* "%2SRCH\r"
SearchMessage == <<37, 50, 83, 82, 67, 72, 13>>

\* the k-th entry of udpLog is a datagram whose logical message is the search
SearchAt(k) ==
    udpLog[k].ev = "datagram" /\ LogicalMessage(udpLog[k].bytes) = SearchMessage

\* the worker tried to send a reply and bind, connect or send failed
FailedSend(e) == e.ev \in {"bind_error", "connect_error", "send_error"}

\* "%2ACKN=" ++ mac ++ "\r"
AcknDatagram(mac) == <<37, 50, 65, 67, 75, 78, 61>> \o mac \o <<13>>

\* C26: the UDP worker sends a reply exactly for the datagrams whose logical
\* message is "%2SRCH\r" (unless the sending itself fails): the next thing it
\* does after such a datagram is to send one datagram "%2ACKN=" ++ MAC ++
\* "\r", with the MAC "00:00:00:00:00:00" when none is available; after any
\* other datagram it sends nothing and waits for the next one
C26_ReplyOnlyToSearch ==
    \A k \in 1..Len(udpLog) :
        /\ udpLog[k].ev = "datagram" =>
              IF k = Len(udpLog)
              THEN udp.pc = IF SearchAt(k) THEN "reply" ELSE "recv"
              ELSE (udpLog[k + 1].ev = "reply" \/ FailedSend(udpLog[k + 1])) <=> SearchAt(k)
        /\ udpLog[k].ev = "reply" =>
              /\ k > 1 /\ SearchAt(k - 1)
              /\ udpLog[k].bytes =
                    AcknDatagram(IF udpLog[k].mac.some THEN udpLog[k].mac.val
                                 ELSE <<48, 48, 58, 48, 48, 58, 48, 48, 58, 48, 48, 58,
                                        48, 48, 58, 48, 48>>)
        /\ udpLog[k].ev \in {"recv_error", "bind_error", "connect_error", "send_error"}
              => (k = Len(udpLog) => udp.pc \in {"recv", "exited"})
                 /\ (k < Len(udpLog) => udpLog[k + 1].ev \in {"datagram", "recv_error"})

\* a search followed by another byte was answered with the null MAC, and a
\* search without terminator was received after it and not answered
C26_Witness ==
    /\ Len(udpLog) = 3
    /\ udpLog[1].ev = "datagram" /\ udpLog[1].bytes = SearchMessage \o <<120>>
    /\ udpLog[2].ev = "reply"
    /\ udpLog[2].bytes = <<37, 50, 65, 67, 75, 78, 61, 48, 48, 58, 48, 48, 58, 48, 48,
                           58, 48, 48, 58, 48, 48, 58, 48, 48, 13>>
    /\ udpLog[3].ev = "datagram" /\ udpLog[3].bytes = <<37, 50, 83, 82, 67, 72>>
    /\ udp.pc = "recv"

\* C27: every discovery reply is sent to the IP address the search came
\* from and to the port the server's own UDP socket is bound to, whatever
\* port the search came from
C27_ReplyToServerPort ==
    \A k \in 1..Len(udpLog) :
        udpLog[k].ev = "reply" =>
            /\ k > 1
            /\ udpLog[k].address.ip = udpLog[k - 1].address.ip
            /\ udpLog[k].address.port = udp.port

\* a search from 10.0.0.7:54321 to a server bound to 4352 was answered to
\* 10.0.0.7:4352
C27_Witness ==
    /\ udp.port = 4352
    /\ Len(udpLog) = 2
    /\ udpLog[1].ev = "datagram"
    /\ udpLog[1].address = [ip |-> "10.0.0.7", port |-> 54321]
    /\ udpLog[2].ev = "reply"
    /\ udpLog[2].address = [ip |-> "10.0.0.7", port |-> 4352]

\* the step receives a datagram: what the worker holds afterwards is
\* determined by that datagram and its origin alone
HandledAfresh ==
    Len(udpLog') = Len(udpLog) + 1 /\ udpLog'[Len(udpLog')].ev = "datagram" =>
        LET e == udpLog'[Len(udpLog')]
        IN  /\ udp'.message_origin = e.address
            /\ udp'.input_command \in {LogicalMessage(e.bytes), RecvBuffer(e.bytes)}
            /\ udp'.pc = IF LogicalMessage(e.bytes) = SearchMessage THEN "reply" ELSE "recv"

\* C28: once started the UDP worker never exits: whatever datagrams, receive
\* errors and failed sends came before, it is waiting for a datagram or
\* answering one, an answer in progress ends with the worker waiting again,
\* and a datagram is handled by its own content alone, so a later search is
\* answered
C28_UdpWorkerNeverExits ==
    /\ [](udp.pc \in {"off", "recv", "reply"})
    /\ [][udp.pc # "off" => udp'.pc # "off"]_vars
    /\ [][HandledAfresh]_vars
    /\ (udp.pc = "reply") ~> (udp.pc = "recv")

\* the sending of the reply to a first search failed, and a second search
\* was answered
C28_Witness ==
    /\ Len(udpLog) = 4
    /\ SearchAt(1)
    /\ FailedSend(udpLog[2])
    /\ SearchAt(3)
    /\ udpLog[4].ev = "reply"
    /\ udp.pc = "recv"


\* the worker of c is between reading a request with the opcode "1XXXX" and
\* having written its answer
UnknownOpcodeAt(c) ==
    /\ pc[c] \in {"cmd_lock", "handle_command", "resp_write"}
    /\ local[c].raw_command.command_body_with_class = <<49, 88, 88, 88, 88>>

\* C29: with the mock projector as handler and no password, a request with an
\* opcode the classifier does not know ("%1XXXX ?") is classified Unknown, the
\* handler answers every Unknown command with Undefined, and what the server
\* writes for the request is "%1XXXX=ERR1" and the terminator
C29_UnknownOpcodeAnsweredErr1 ==
    ~handler.password.some =>
        /\ \A c \in Conn : UnknownOpcodeAt(c) => local[c].command = CmdUnknown
        /\ \A k \in 1..Len(handler.handled) :
              handler.handled[k].command = CmdUnknown =>
                  handler.handled[k].response = Resp("Undefined", <<>>)
        /\ \A c \in Conn :
              UnknownOpcodeAt(c) /\ pc[c] = "resp_write" =>
                  local[c].output_buffer = <<37, 49, 88, 88, 88, 88, 61, 69, 82, 82, 49, 13>>

\* without a password, the answer to a request with the opcode "1XXXX" is
\* about to be written and it is "%1XXXX=ERR2" and the terminator
C29_Witness ==
    /\ ~handler.password.some
    /\ \E c \in Conn :
          /\ UnknownOpcodeAt(c)
          /\ pc[c] = "resp_write"
          /\ local[c].command = CmdUnknown
          /\ local[c].output_buffer = <<37, 49, 88, 88, 88, 88, 61, 69, 82, 82, 50, 13>>

\* the three power commands the classifier tells apart
PowerOnCommand == Cmd("Power1", "On", -1)
PowerOffCommand == Cmd("Power1", "Off", -1)
PowerQueryCommand == Cmd("Power1", "Query", -1)

\* the power commands among the first k - 1 commands handled
PowerSetsBefore(k) ==
    {j \in 1..(k - 1) : handler.handled[j].command \in {PowerOnCommand, PowerOffCommand}}

\* the power status after the first k - 1 commands handled: '1' or '0' as the
\* latest power command among them says, '0' when there is none
PowerBefore(k) ==
    IF PowerSetsBefore(k) = {} THEN 48
    ELSE LET last == CHOOSE j \in PowerSetsBefore(k) : \A i \in PowerSetsBefore(k) : i <= j
         IN  IF handler.handled[last].command = PowerOnCommand THEN 49 ELSE 48

Phase(p, l) ==
    CASE p = "idle" -> 0
      [] p \in {"start", "greet_lock", "get_password", "greet_write"} -> 1
      [] p \in {"closed", "panicked"} -> 4
      [] OTHER -> IF l.use_auth /\ ~l.has_authenticated THEN 2 ELSE 3

\* the calls the handler has received from session c
CallsOf(c) == {x \in handler.calls : x.session = c}

\* C31: in every step a session stays in its state or moves forward in the
\* order Greet, AwaitAuth, Ready, Closed, and it is in AwaitAuth only when
\* get_password returned a password; an authenticated session stays
\* authenticated until it is closed and is never turned down with the
\* authentication error; once the worker has ended (peer close, read error,
\* write error, authentication failure, or its thread has died) nothing more
\* is read, written or asked of the handler for the connection
C31_SessionMovesForward ==
    [][\A c \in Conn :
          /\ Phase(pc'[c], local'[c]) >= Phase(pc[c], local[c])
          /\ Phase(pc'[c], local'[c]) = 2 => local'[c].password.some
          /\ local[c].has_authenticated =>
                /\ local'[c].has_authenticated
                /\ pc'[c] # "erra_write"
          /\ Ended(c) =>
                /\ pc'[c] = pc[c]
                /\ log'[c] = log[c]
                /\ local'[c] = local[c]
                /\ inbound'[c] = inbound[c]
                /\ {x \in handler'.calls : x.session = c} = CallsOf(c)
                /\ lockHolder' = c <=> lockHolder = c]_vars

\* a protected session was authenticated by its first line, served a second
\* request that carried no hash, and is closed
C31_Witness ==
    \E c \in observed :
        /\ Protected(c)
        /\ local[c].has_authenticated
        /\ Cardinality(Indices(c, "response")) = 2
        /\ Len(ReadLines(log[c])) = 2
        /\ ~CarriesHash(c, ReadLines(log[c])[2])
        /\ pc[c] = "closed"

(***************************************************************************)
(* C32                                                                     *)
(***************************************************************************)
\* the line read at position k of the history of c is the one on which the
\* hash was verified: the first line of a protected session
VerifiedAt(c, k) == Protected(c) /\ k = FirstRead(c)

\* C32: the payload handed to the handler is the line read just before,
\* parsed from its first byte, except for the line on which the hash was
\* verified, which is parsed from its 33rd byte: a session without password
\* and an authenticated session remove nothing from a line
C32_StripsOnlyVerifiedLine ==
    \A c \in observed :
        \A k \in Indices(c, "handle_command") :
            LET line == log[c][k - 1].bytes
            IN  log[c][k].arg.raw =
                    IF VerifiedAt(c, k - 1) THEN Parsed(AfterHash(line)) ELSE Parsed(line)

\* an authenticated session has read 32 bytes '0' followed by "%1POWR ?" as
\* its second line and hands the handler the power query
C32_Witness ==
    \E c \in observed :
        /\ Protected(c)
        /\ Len(ReadLines(log[c])) = 2
        /\ ReadLines(log[c])[2] = ZeroHash \o RequestPowerQuery
        /\ pc[c] = "handle_command"
        /\ local[c].raw_command = Parsed(RequestPowerQuery)

(***************************************************************************)
(* C33                                                                     *)
(***************************************************************************)
\* the write event e took a part of its buffer only
PartlyWritten(e) == e.arg >= 0 /\ e.arg < Len(e.bytes)

\* C33: when the socket has taken only a part of a response line, the worker
\* reads no further request and writes no further response on the connection
\* unless the rest of the line has been written: since the rest is never
\* written, a partly written response is followed by no read and no response
C33_ResponseWrittenInFull ==
    \A c \in observed :
        \A k \in Indices(c, "response") :
            PartlyWritten(log[c][k]) =>
                \A j \in (k + 1)..Len(log[c]) : log[c][j].ev \notin {"read", "response"}

\* the socket took a part of the first response and the second request has
\* been answered after it on the same connection
C33_Witness ==
    \E c \in observed :
        /\ Cardinality(Indices(c, "response")) = 2
        /\ \E k \in Indices(c, "response") :
              /\ PartlyWritten(log[c][k])
              /\ \E j \in Indices(c, "response") : j > k /\ FullyWritten(log[c][j])

(***************************************************************************)
(* C34                                                                     *)
(***************************************************************************)
\* the worker of c is inside a write that its peer keeps from returning
Stalled(c) == pc[c] = "write_blocked"

\* C34: whatever writes are blocked by peers that stopped reading, every
\* request another connection's worker has read and classified is eventually
\* dispatched to the handler, and every dispatched request eventually has
\* its response rendered and handed to the socket
C34_SlowPeerDelaysOnlyItself ==
    \A c \in Conn :
        /\ (pc[c] = "cmd_lock") ~> (pc[c] = "handle_command")
        /\ (pc[c] = "handle_command") ~> (pc[c] = "resp_write")

\* the write of a response to one connection is blocked with the Mutex held
\* while the worker of another connection waits to dispatch its request
C34_Witness ==
    \E c, d \in Conn :
        /\ c # d
        /\ Stalled(c)
        /\ local[c].output_buffer # <<>>
        /\ lockHolder = c
        /\ pc[d] = "cmd_lock"

(***************************************************************************)
(* C35                                                                     *)
(***************************************************************************)
\* session c has written a challenge prologue
Challenged(c) == local[c].password_salt.some

\* the line a peer that knows the password sends first in session c
AcceptedLine(c) ==
    ExpectedHash(local[c].password_salt.val, local[c].password.val) \o RequestPowerQuery

\* C35: any two sessions that have written a challenge prologue have written
\* different salts, and the hash line one of them accepts is not accepted by
\* the other
C35_SaltNeverReused ==
    \A c, d \in Conn :
        c # d /\ Challenged(c) /\ Challenged(d) =>
            /\ local[c].password_salt.val # local[d].password_salt.val
            /\ ~HashAccepted(AcceptedLine(c), local[d].password, local[d].password_salt)

\* two sessions have drawn the same salt and both are authenticated, by the
\* same line
C35_Witness ==
    \E c, d \in Conn :
        /\ c # d
        /\ Challenged(c) /\ Challenged(d)
        /\ local[c].password_salt = local[d].password_salt
        /\ local[c].has_authenticated /\ local[d].has_authenticated

(***************************************************************************)
(* C36                                                                     *)
(***************************************************************************)
MuteQueryCommand == Cmd("AvMute1", "Query", -1)

\* the channels a set command is about: none for the query and for a
\* parameter the classifier does not know
ChannelsOf(command) ==
    CASE command.param = "Audio" -> {"audio"}
      [] command.param = "Video" -> {"video"}
      [] command.param = "AudioAndVideo" -> {"audio", "video"}
      [] OTHER -> {}

\* channel ch is muted after the first k - 1 commands handled: the latest
\* set command about it among them has the flag 1; no channel is muted when
\* the projector starts
MutedBefore(ch, k) ==
    LET about == {j \in 1..(k - 1) : ch \in ChannelsOf(handler.handled[j].command)}
    IN  /\ about # {}
        /\ LET last == CHOOSE j \in about : \A i \in about : i <= j
           IN  handler.handled[last].command.value = 1

\* the channels the reported pair <<target, flag>> gives as muted
ReportedMuted(pair) ==
    IF pair[2] = 48 THEN {}
    ELSE CASE pair[1] = 49 -> {"video"}
           [] pair[1] = 50 -> {"audio"}
           [] pair[1] = 51 -> {"audio", "video"}

\* C36: the mock projector answers every "%1AVMT ?" with a pair whose target
\* is '1', '2' or '3' and whose flag is '0' or '1', and the pair reports as
\* muted exactly the channels whose latest set command before the query
\* muted them: muting audio alone reports "21"
C36_MuteChannelsIndependent ==
    \A k \in 1..Len(handler.handled) :
        handler.handled[k].command = MuteQueryCommand =>
            LET response == handler.handled[k].response
            IN  /\ response.kind = "Multiple"
                /\ Len(response.bytes) = 2
                /\ response.bytes[1] \in {49, 50, 51}
                /\ response.bytes[2] \in {48, 49}
                /\ ReportedMuted(response.bytes) =
                       {ch \in {"audio", "video"} : MutedBefore(ch, k)}

\* "%1AVMT 21" on a projector in its initial state, then the query answered
\* "31"
C36_Witness ==
    /\ Len(handler.handled) = 2
    /\ handler.handled[1] = HandledCall(0, Cmd("AvMute1", "Audio", 1), Resp("Ok", <<>>))
    /\ handler.handled[2] = HandledCall(0, MuteQueryCommand, Resp("Multiple", <<51, 49>>))

(***************************************************************************)
(* The TCP workers and the UDP worker of one server running together.      *)
(***************************************************************************)
\* the lines the TCP peers send while the UDP worker runs
MixedLines == {RequestClassQuery}

\* the datagrams sent meanwhile: the search
MixedDatagrams == {PJLINK_BROADCAST_SEARCH_START}

\* where the datagrams come from
MixedOrigins == {[ip |-> "10.0.0.7", port |-> 54321]}

\* the steps of the threads listen and listen_multicast start, in any
\* interleaving; a TCP peer may stop reading
MixedNext ==
    \/ \E c \in Conn : Accept(c, <<>>)
    \/ \E c \in Conn, line \in MixedLines : Arrive(c, line)
    \/ \E c \in Conn : WorkerStep(c)
    \/ \E c \in Conn : WriteStalls(c)
    \/ \E c \in Conn : PeerClose(c)
    \/ ListenMulticast(4352)
    \/ \E datagram \in MixedDatagrams, origin \in MixedOrigins : UdpReceive(datagram, origin)
    \/ UdpRecvError
    \/ \E mac \in MacResults : UdpReply(mac, "sent")

\* a projector serving NumConn TCP connections and the UDP search at once
MixedSpec == Init /\ [][MixedNext]_vars

(***************************************************************************)
(* A handler whose password changes while sessions are open.               *)
(***************************************************************************)
\* "PANASONIC"
OtherPassword == <<80, 65, 78, 65, 83, 79, 78, 73, 67>>

\* what get_password may come to return
RekeyPasswords == {None, Some(Password), Some(OtherPassword)}

\* the handler is given another password: by the application, which locks
\* the Mutex for it, or by the handler itself within one of its calls
PasswordChanges(password) ==
    /\ password # handler.password
    /\ \/ lockHolder = 0
       \/ lockHolder \in Conn /\ pc[lockHolder] \in {"get_password", "handle_command"}
    /\ handler' = [handler EXCEPT !.password = password]
    /\ UNCHANGED <<udp, udpLog, probe, pc, local, counter, lockHolder, inbound, sent,
                   observed, log>>

\* the lines the peers send: a request after the hash of either password
\* with either salt
RekeyLines ==
    {ExpectedHash(FormatSalt(n), password) \o RequestPowerQuery :
        n \in SaltNumbers, password \in {Password, OtherPassword}}

RekeyNext ==
    \/ \E c \in Conn : Accept(c, <<>>)
    \/ \E c \in Conn, line \in RekeyLines : Arrive(c, line)
    \/ \E c \in Conn : WorkerStep(c)
    \/ \E c \in Conn : PeerClose(c)
    \/ \E password \in RekeyPasswords : PasswordChanges(password)

\* NumConn connections served at once while the password of the handler
\* changes at any time
RekeySpec == Init /\ [][RekeyNext]_vars

(***************************************************************************)
(* C37                                                                     *)
(***************************************************************************)
\* the thread of worker c has died on the line it read last
AbortedOn(c, line) == pc[c] = "panicked" /\ local[c].input_command_buffer = line

\* the step is the abort of worker c
Aborts(c) == pc[c] # "panicked" /\ pc'[c] = "panicked"

\* worker d is about to take the Mutex
AtLock(d) == pc[d] \in {"greet_lock", "cmd_lock"}

\* C37: a worker that aborts on a line of its peer (the empty line, a line
\* shorter than 7 bytes, "%1POWR " without parameter, a line shorter than 32
\* bytes after the authentication) does not hold the Mutex when it aborts:
\* the abort leaves the Mutex as it was, the Mutex is never poisoned, an
\* aborted worker never holds it, and every other worker about to take the
\* Mutex takes it unless a running worker holds it
C37_AbortsOutsideCriticalSection ==
    /\ [](lockHolder # Poisoned)
    /\ [](\A c \in Conn : pc[c] = "panicked" => lockHolder # c)
    /\ [][\A c \in Conn : Aborts(c) => lockHolder # c /\ lockHolder' = lockHolder]_vars
    /\ [](\A c, d \in Conn :
            pc[c] = "panicked" /\ d # c /\ AtLock(d) /\ ~WaitsForRunning(d)
                => ENABLED (GreetLock(d) \/ CommandLock(d)))

\* an authenticated worker has aborted on "X1CLSS ?", a line shorter than 32
\* bytes, and the worker of another connection holds the Mutex for its
\* greeting
C37_Witness ==
    \E c, d \in Conn :
        /\ c # d
        /\ local[c].has_authenticated
        /\ AbortedOn(c, BadHeaderLine)
        /\ pc[d] = "get_password"
        /\ lockHolder = d

(***************************************************************************)
(* C38                                                                     *)
(***************************************************************************)
\* a handler call of session c has panicked
HandlerAborted(c) == Indices(c, "handler_panic") # {}

\* the prologue the handler's password calls for starts the buffer
PrologueOfHandler(bytes) ==
    IF handler.password.some
    THEN Len(bytes) >= Len(PJLINK_SECURITY)
         /\ SubSeq(bytes, 1, Len(PJLINK_SECURITY)) = PJLINK_SECURITY
    ELSE bytes = PJLINK_NULLIFIED_SECURITY

\* the line is a request the projector has to answer in session d: a framed
\* line of an open projector, or the hash of this session followed by a
\* framed line
OwedAnswer(d, line) ==
    \/ ~handler.password.some /\ WellFormed(line)
    \/ Protected(d) /\ CarriesHash(d, line) /\ WellFormed(AfterHash(line))

\* C38: whatever handler calls have panicked in other sessions, a session
\* none of whose handler calls has panicked is served as usual: its first
\* line is read after the prologue the handler's password calls for, every
\* request it is owed an answer to is followed by a handle_command call, and
\* every handle_command call by a response line
C38_HandlerPanicLeavesOthersServed ==
    \A d \in Conn :
        ~HandlerAborted(d) =>
            LET l == log[d]
            IN  /\ \A k \in Indices(d, "read") :
                      /\ k = FirstRead(d) =>
                            l[k - 1].ev = "prologue" /\ PrologueOfHandler(l[k - 1].bytes)
                      /\ OwedAnswer(d, l[k].bytes) =>
                            IF k = Len(l) THEN pc[d] = "cmd_lock"
                            ELSE l[k + 1].ev = "handle_command"
                /\ \A k \in Indices(d, "handle_command") :
                      IF k = Len(l) THEN pc[d] \in {"handle_command", "resp_write"}
                      ELSE l[k + 1].ev = "response"

\* after a handler call of session c has panicked, session d of a projector
\* with a password has read a request without any prologue before it, and
\* the request was dropped without a handle_command call
C38_Witness ==
    \E c, d \in Conn :
        /\ c # d
        /\ HandlerAborted(c)
        /\ ~HandlerAborted(d)
        /\ handler.password.some
        /\ lockHolder = Poisoned
        /\ Indices(d, "prologue") = {}
        /\ \E k \in Indices(d, "read") :
              /\ log[d][k].bytes = RequestClassQuery
              /\ k < Len(log[d])
              /\ log[d][k + 1].ev = "command_skipped"

(***************************************************************************)
(* C39                                                                     *)
(***************************************************************************)
\* the step is one of the UDP worker
UdpStep == udp' # udp \/ udpLog' # udpLog

\* the sessions that have done their fetch_add
WithId == {c \in Conn : pc[c] \notin {"idle", "start"}}

\* the ids handed out so far are 0, 1, .. in the order of the fetch_add
\* calls, one per session
IdsDense ==
    /\ counter = Cardinality(WithId)
    /\ {local[c].connection_id : c \in WithId} = 0..(counter - 1)

\* a worker is inside a handler call or blocked in a write, the Mutex held
LockBusy(c) == lockHolder = c /\ pc[c] \in {"get_password", "handle_command", "write_blocked"}

\* C39: the UDP worker takes no part in what the TCP workers share: a step
\* of it leaves the Mutex, the handler, the counter and every session as
\* they are, the reply to a search can be sent in every state of the TCP
\* workers (a handler call in progress or a worker blocked in a write with
\* the Mutex held included), and the ids handed to the TCP sessions are
\* 0, 1, .. whatever datagrams have arrived
C39_DiscoveryApartFromSessions ==
    /\ [][UdpStep => UNCHANGED <<lockHolder, handler, counter, pc, local>>]_vars
    /\ [](udp.pc = "reply" => \A mac \in MacResults : ENABLED UdpReply(mac, "sent"))
    /\ []IdsDense

\* a search has been answered and the next one waits for its reply while
\* one worker is blocked in a write with the Mutex held, another waits for
\* the Mutex, and both sessions have their ids
C39_Witness ==
    /\ udp.pc = "reply"
    /\ \E k \in 1..Len(udpLog) : udpLog[k].ev = "reply"
    /\ \E c, d \in Conn :
          /\ c # d
          /\ LockBusy(c)
          /\ pc[c] = "write_blocked"
          /\ pc[d] \in {"greet_lock", "cmd_lock"}
    /\ counter = NumConn

(***************************************************************************)
(* C40                                                                     *)
(***************************************************************************)
\* session c waits for the hash of its peer
AwaitsHash(c) ==
    /\ pc[c] = "read"
    /\ inbound[c] # <<>>
    /\ local[c].use_auth
    /\ ~local[c].has_authenticated

\* the step authenticates session c
Authenticates(c) == ~local[c].has_authenticated /\ local'[c].has_authenticated

\* the password and the salt of session c are set in its own greeting and
\* nowhere else: the password is the one the handler holds when get_password
\* returns
SetAtGreeting(c) ==
    /\ local'[c].password # local[c].password
          => pc[c] = "get_password" /\ local'[c].password = handler.password
    /\ local'[c].password_salt # local[c].password_salt => pc[c] = "greet_write"

\* C40: a session is authenticated by the hash of its own salt and of the
\* password get_password returned at its greeting, and by no other: the
\* line that authenticates it starts with that hash, a line longer than 32
\* bytes that starts with that hash authenticates it, and neither a change
\* of the handler's password nor the greeting of another session changes
\* the password or the salt the session compares with
C40_OwnPasswordAndSalt ==
    [][\A c \in Conn :
          /\ SetAtGreeting(c)
          /\ Authenticates(c) => AwaitsHash(c) /\ CarriesHash(c, Head(inbound[c]))
          /\ (AwaitsHash(c) /\ pc'[c] # pc[c]
                 /\ CarriesHash(c, Head(inbound[c])) /\ Len(Head(inbound[c])) > HashLen)
                => Authenticates(c)]_vars

\* session c has just been authenticated with the password of its greeting
\* while the handler holds another password, under which session d has been
\* greeted since, with another salt
C40_Witness ==
    \E c, d \in Conn :
        /\ c # d
        /\ pc[c] = "cmd_lock"
        /\ local[c].has_authenticated
        /\ local[c].password = Some(Password)
        /\ handler.password = Some(OtherPassword)
        /\ pc[d] = "read"
        /\ local[d].password = Some(OtherPassword)
        /\ local[d].password_salt.some
        /\ local[d].password_salt # local[c].password_salt

====
